---- MODULE Spec2Model ----
(***************************************************************************)
(* Model of the Solana staking dashboard: the app script's refresh         *)
(* decision and the memoized fetch cycle (src/app.py,                      *)
(* src/utils/data_processor.py), the RPC adapter                           *)
(* (src/utils/solana_client.py) and the normalization / statistics         *)
(* functions.                                                              *)
(*                                                                         *)
(* Python values are modelled as follows.                                  *)
(*   - a dict is a function whose DOMAIN is its set of keys;               *)
(*   - a value that the code converts with float() is tagged: IntV(hi,lo)  *)
(*     is the integer hi * 10^9 + lo (two base-10^9 digits, so that whole  *)
(*     SOL amounts in lamports fit), NoneV is None, StrV a non-numeric     *)
(*     string, NaNV the NaN pandas puts in a missing cell;                 *)
(*   - a float obtained by dividing such an integer by 10^9 is             *)
(*     DecV(ip, fp) = ip + fp / 10^9;                                      *)
(*   - a quotient of floats (a percentage, a mean, a Gini or correlation   *)
(*     coefficient) is kept as its exact numerator and denominator, with   *)
(*     NaN and inf where pandas gives them; the rounding of float64        *)
(*     arithmetic is not modelled;                                         *)
(*   - a call that may raise returns [raised |-> TRUE, exc |-> name] or    *)
(*     [raised |-> FALSE, value |-> v].                                    *)
(***************************************************************************)
EXTENDS Integers, Sequences, FiniteSets, TLC

VARIABLES
  now,      \* time.time(), in seconds
  clients,  \* st.cache_resource of get_solana_client: network -> "unset", "ok" or "none"
  memo,     \* st.cache_data of cache_data: network -> the time its entry was stored
  issued,   \* network -> the time the five RPC calls were last issued for it
  sess,     \* st.session_state of every browser session
  ncycles,  \* number of executions of the body of cache_data so far
  nruns,    \* number of runs of the script so far
  last,     \* what the latest run of the script did
  call      \* the latest call of an adapter or pure function: [fn, arg, res]

vars == <<now, clients, memo, issued, sess, ncycles, nruns, last, call>>

appvars == <<now, clients, memo, issued, sess, ncycles, nruns, last>>

-----------------------------------------------------------------------------
(* Bounds of the model *)

MaxTime == 60

MaxCycles == 2

MaxRuns == 4

MaxValidators == 2

MaxRate == 30

MaxArrayLen == 3

MaxValue == 2

-----------------------------------------------------------------------------
(* Program constants *)

LamportsPerSol == 1000000000

CacheTtl == 60

RefreshDefault == 120

RefreshMin == 30

RefreshMax == 300

RefreshStep == 30

-----------------------------------------------------------------------------
(* Python values *)

IntV(h, l) == [t |-> "int", hi |-> h, lo |-> l]

NoneV == [t |-> "none"]

StrV == [t |-> "str"]

NaNV == [t |-> "nan"]

DecV(i, f) == [t |-> "dec", ip |-> i, fp |-> f]

ListV(s) == [t |-> "list", items |-> s]

Ok(v) == [raised |-> FALSE, value |-> v]

Raise(e) == [raised |-> TRUE, exc |-> e]

EmptyDict == [k \in {} |-> 0]

\* d[k] = v on a dict
DictSet(d, k, v) == [x \in DOMAIN d \cup {k} |-> IF x = k THEN v ELSE d[x]]

\* dict.get(k, default)
DictGet(d, k, default) == IF k \in DOMAIN d THEN d[k] ELSE default

\* dict.update(other)
DictUpdate(d, other) ==
  [x \in DOMAIN d \cup DOMAIN other |-> IF x \in DOMAIN other THEN other[x] ELSE d[x]]

\* float(x) of a tagged value
PyFloat(x) ==
  CASE x.t = "int" -> Ok(x)
    [] x.t = "dec" -> Ok(x)
    [] x.t = "nan" -> Ok(x)
    [] x.t = "none" -> Raise("TypeError")
    [] x.t = "str" -> Raise("ValueError")
    [] OTHER -> Raise("TypeError")

\* x / 1_000_000_000 for x a float holding an integer number of lamports
DivLamports(x) == IF x.t = "int" THEN DecV(x.hi, x.lo) ELSE NaNV

DecZero == DecV(0, 0)

DecAdd(a, b) ==
  IF a.t = "nan" \/ b.t = "nan" THEN NaNV
  ELSE LET f == a.fp + b.fp
       IN IF f >= LamportsPerSol THEN DecV(a.ip + b.ip + 1, f - LamportsPerSol)
          ELSE DecV(a.ip + b.ip, f)

\* a < b on floats (False when either is NaN)
DecLt(a, b) ==
  /\ a.t = "dec" /\ b.t = "dec"
  /\ (a.ip < b.ip \/ (a.ip = b.ip /\ a.fp < b.fp))

DecIsZero(a) == a.t = "dec" /\ a.ip = 0 /\ a.fp = 0

\* a <= b on floats (False when either is NaN)
DecLe(a, b) ==
  /\ a.t = "dec" /\ b.t = "dec"
  /\ (a.ip < b.ip \/ (a.ip = b.ip /\ a.fp <= b.fp))

\* a * k for a whole number k >= 0 (the fraction is multiplied in two parts of six and
\* three digits, which keeps every intermediate product small)
DecScale(a, k) ==
  LET low == k * (a.fp % 1000000)
      mid == k * (a.fp \div 1000000) + (low \div 1000000)
  IN DecV(k * a.ip + (mid \div 1000), (mid % 1000) * 1000000 + (low % 1000000))

\* a percentage num / den * 100 of two floats, kept as the exact quotient, den > 0
Pct(n, d) == [t |-> "pct", num |-> n, den |-> d]

\* p >= k and p <= q on percentages (False when either is NaN)
PctGe(p, k) == p.t = "pct" /\ DecLe(DecScale(p.den, k), DecScale(p.num, 100))

PctLe(p, q) == p.t = "pct" /\ q.t = "pct" /\ p.den = q.den /\ DecLe(p.num, q.num)

-----------------------------------------------------------------------------
(* RPC adapter, src/utils/solana_client.py.                                *)
(* A response of the client library is one of                              *)
(*   [kind |-> "exception"]          the call raised (transport failure)   *)
(*   [kind |-> "object", value |-> v] a typed response (has .value)        *)
(*   [kind |-> "dict", body |-> d]    a JSON dictionary                    *)
(*   [kind |-> "other"]               anything else                        *)
(* An attribute-bearing object is a function from its attribute names.     *)

\* try: ... except Exception: return default
Catch(r, default) == IF r.raised THEN Ok(default) ELSE r

\* the "if hasattr(value, attr): out[key] = value.attr" chains
MapAttrs(value, pairs) ==
  LET keys == {p[2] : p \in {q \in pairs : q[1] \in DOMAIN value}}
      attrOf(k) == (CHOOSE p \in pairs : p[2] = k)[1]
  IN [k \in keys |-> value[attrOf(k)]]

\* lines 22-27: the endpoint table of get_solana_client
endpoints ==
  [n \in {"Mainnet Beta", "Testnet", "Devnet"} |->
     CASE n = "Mainnet Beta" -> "https://api.devnet.solana.com"
       [] n = "Testnet" -> "https://api.testnet.solana.com"
       [] n = "Devnet" -> "https://api.devnet.solana.com"]

\* line 29: endpoints.get(network, endpoints["Devnet"])
endpoint_of(network) ==
  IF network \in DOMAIN endpoints THEN endpoints[network] ELSE endpoints["Devnet"]

\* line 32
max_retries == 3

\* line 33, seconds
retry_delay == 2

version_accepted_typed_only(version) == version.kind = "object"

\* lines 43 and 47: the version response has .value, or is a dict with "result"
version_accepted(version) ==
  \/ version.kind = "object"
  \/ version.kind = "dict" /\ "result" \in DOMAIN version.body

\* lines 35-65: the attempts from number attempt on (0-based); versions[k] is what
\* Client(endpoint).get_version() does at the k-th attempt, events is what happened
\* so far: <<"attempt", k>> and <<"sleep", seconds>>
RECURSIVE connect(_, _, _, _)
connect(endpoint, versions, attempt, events) ==
  IF attempt >= max_retries THEN [client |-> NoneV, events |-> events]
  ELSE
    LET version == versions[attempt + 1]
        tried == Append(events, <<"attempt", attempt>>)
    IN IF version_accepted(version)
       THEN [client |-> [t |-> "client", endpoint |-> endpoint], events |-> tried]
       ELSE IF attempt < max_retries - 1
            THEN connect(endpoint, versions, attempt + 1, Append(tried, <<"sleep", retry_delay>>))
            ELSE [client |-> NoneV, events |-> tried]

\* lines 11-68
get_solana_client(network, versions) == connect(endpoint_of(network), versions, 0, <<>>)

\* an element of a vote-account partition: [isdict |-> BOOLEAN, f |-> fields]
VoteAccountDict(v) ==
  LET a == IF v.isdict THEN EmptyDict ELSE v.f
  IN [nodePubkey |-> DictGet(a, "node_pubkey", ""),
      votePubkey |-> DictGet(a, "vote_pubkey", ""),
      activatedStake |-> DictGet(a, "activated_stake", IntV(0, 0)),
      commission |-> DictGet(a, "commission", 0),
      lastVote |-> DictGet(a, "last_vote", 0),
      rootSlot |-> DictGet(a, "root_slot", 0),
      epochCredits |-> DictGet(a, "epoch_credits", ListV(<<>>)),
      epochVoteAccount |-> DictGet(a, "epoch_vote_account", FALSE)]

\* lines 91-110 and 112-131: convert a partition when its first element is no dict
ConvertPartition(part) ==
  IF Len(part) > 0 /\ ~part[1].isdict
  THEN [i \in 1..Len(part) |-> [isdict |-> TRUE, f |-> VoteAccountDict(part[i])]]
  ELSE part

MarkDelinquent_swapped(current, delinquent) ==
  IF \E i \in 1..Len(delinquent) : ~delinquent[i].isdict
  THEN Raise("TypeError")
  ELSE IF \E i \in 1..Len(current) : ~current[i].isdict
  THEN Raise("TypeError")
  ELSE Ok([i \in 1..Len(delinquent) |-> DictSet(delinquent[i].f, "delinquent", TRUE)]
          \o [i \in 1..Len(current) |-> DictSet(current[i].f, "delinquent", FALSE)])

\* lines 134-139 and 150-155: v["delinquent"] = flag on every element, then current + delinquent
MarkDelinquent(current, delinquent) ==
  IF \E i \in 1..Len(delinquent) : ~delinquent[i].isdict
  THEN Raise("TypeError")
  ELSE IF \E i \in 1..Len(current) : ~current[i].isdict
  THEN Raise("TypeError")
  ELSE Ok([i \in 1..Len(current) |-> DictSet(current[i].f, "delinquent", FALSE)]
          \o [i \in 1..Len(delinquent) |-> DictSet(delinquent[i].f, "delinquent", TRUE)])

get_validators_object(value) ==
  LET current == ConvertPartition(DictGet(value, "current", <<>>))
      delinquent == ConvertPartition(DictGet(value, "delinquent", <<>>))
  IN Catch(MarkDelinquent(current, delinquent), <<>>)

get_validators_dict(body) ==
  IF "current" \notin DOMAIN body["result"] THEN Raise("KeyError")
  ELSE IF "delinquent" \notin DOMAIN body["result"] THEN Raise("KeyError")
  ELSE MarkDelinquent(body["result"]["current"], body["result"]["delinquent"])

get_validators_try(response) ==
  CASE response.kind = "exception" -> Raise("Exception")
    [] response.kind = "object" -> get_validators_object(response.value)
    [] response.kind = "dict" /\ "result" \in DOMAIN response.body ->
         get_validators_dict(response.body)
    [] OTHER -> Ok(<<>>)

get_validators(response) == Catch(get_validators_try(response), <<>>)

EpochAttrs ==
  {<<"epoch", "epoch">>, <<"slot_index", "slotIndex">>,
   <<"slots_in_epoch", "slotsInEpoch">>, <<"absolute_slot", "absoluteSlot">>,
   <<"block_height", "blockHeight">>, <<"transaction_count", "transactionCount">>}

get_epoch_info_try(response) ==
  CASE response.kind = "exception" -> Raise("Exception")
    [] response.kind = "object" -> Ok(MapAttrs(response.value, EpochAttrs))
    [] response.kind = "dict" /\ "result" \in DOMAIN response.body ->
         Ok(response.body["result"])
    [] OTHER -> Ok(EmptyDict)

get_epoch_info(response) == Catch(get_epoch_info_try(response), EmptyDict)

SupplyAttrs ==
  {<<"total", "total">>, <<"circulating", "circulating">>,
   <<"non_circulating", "nonCirculating">>}

get_supply_info_try(response) ==
  CASE response.kind = "exception" -> Raise("Exception")
    [] response.kind = "object" -> Ok(MapAttrs(response.value, SupplyAttrs))
    [] response.kind = "dict" /\ "result" \in DOMAIN response.body ->
         IF "value" \in DOMAIN response.body["result"]
         THEN Ok(response.body["result"]["value"])
         ELSE Raise("KeyError")
    [] OTHER -> Ok(EmptyDict)

\* get_supply_info without the outer try/except of lines 221 and 249-251
get_supply_info_nocatch(response) == get_supply_info_try(response)

get_supply_info(response) == Catch(get_supply_info_try(response), EmptyDict)

\* lines 285-293: one dict per sample that has a slot attribute
SampleDict(sample) ==
  [slot |-> sample["slot"],
   numTransactions |-> DictGet(sample, "num_transactions", 0),
   numSlots |-> DictGet(sample, "num_slots", 1),
   samplePeriodSecs |-> DictGet(sample, "sample_period_secs", 60)]

\* lines 284-292: only the samples with a slot attribute are kept, in order
SamplesOf(value) ==
  LET kept == SelectSeq(value, LAMBDA sample : "slot" \in DOMAIN sample)
  IN [i \in 1..Len(kept) |-> SampleDict(kept[i])]

\* a typed response whose value is None is [iterable |-> FALSE]
get_recent_performance_object(value) ==
  IF value.iterable THEN Ok(SamplesOf(value.items)) ELSE Raise("TypeError")

get_recent_performance_try(response) ==
  CASE response.kind = "exception" -> Raise("Exception")
    [] response.kind = "object" ->
         Catch(get_recent_performance_object(response.value), <<>>)
    [] response.kind = "dict" /\ "result" \in DOMAIN response.body ->
         Ok(response.body["result"])
    [] OTHER -> Ok(<<>>)

get_recent_performance(response) == Catch(get_recent_performance_try(response), <<>>)

\* src/utils/solana_client.py line 277: get_recent_performance_samples(limit=60)
SampleLimit == 60

\* the RPC method answers with the newest samples first and with no more than limit of them
get_recent_performance_samples(history, limit) ==
  SubSeq(history, 1, IF Len(history) < limit THEN Len(history) ELSE limit)

InflationAttrs ==
  {<<"total", "total">>, <<"validator", "validator">>,
   <<"foundation", "foundation">>, <<"epoch", "epoch">>}

get_inflation_info_try(response) ==
  CASE response.kind = "exception" -> Raise("Exception")
    [] response.kind = "object" -> Ok(MapAttrs(response.value, InflationAttrs))
    [] response.kind = "dict" /\ "result" \in DOMAIN response.body ->
         Ok(response.body["result"])
    [] OTHER -> Ok(EmptyDict)

get_inflation_info(response) == Catch(get_inflation_info_try(response), EmptyDict)

-----------------------------------------------------------------------------
(* Normalizer, src/utils/data_processor.py.                                *)
(* A DataFrame is [columns |-> set of names, rows |-> sequence of rows],   *)
(* every row a function on the columns; a cell missing from the source     *)
(* record holds NaNV.                                                      *)

EmptyDF == [columns |-> {}, rows |-> <<>>]

\* pd.DataFrame(list of dicts)
DataFrame(records) ==
  LET cols == UNION {DOMAIN records[i] : i \in 1..Len(records)}
  IN [columns |-> cols,
      rows |-> [i \in 1..Len(records) |->
                  [c \in cols |-> IF c \in DOMAIN records[i] THEN records[i][c] ELSE NaNV]]]

\* one cell of Series.astype(float): None and NaN become NaN, a non-numeric string raises
AsTypeFloat(x) ==
  CASE x.t = "int" -> Ok(x)
    [] x.t = "none" -> Ok(NaNV)
    [] x.t = "nan" -> Ok(NaNV)
    [] OTHER -> Raise("ValueError")

\* df[col] = f(row) for every row
WithColumn(df, col, f(_)) ==
  [columns |-> df.columns \cup {col},
   rows |-> [i \in 1..Len(df.rows) |-> DictSet(df.rows[i], col, f(df.rows[i]))]]

\* a vote success rate is the exact fraction num / den, den > 0
Rat(n, d) == [num |-> n, den |-> d]

RatEq(a, b) == a.num * b.den = b.num * a.den

\* bool(row.get('epochCredits')): a missing column gives None, a NaN cell is truthy
CreditsTruthy(row) ==
  IF "epochCredits" \notin DOMAIN row THEN FALSE
  ELSE IF row["epochCredits"].t = "list" THEN Len(row["epochCredits"].items) > 0
  ELSE TRUE

\* lines 68-80: the body of the try, with its except (IndexError, TypeError)
VoteRateOfRow(row) ==
  IF row["epochCredits"].t # "list" THEN Rat(0, 1)
  ELSE LET credits == row["epochCredits"].items
           recent_credits == credits[Len(credits)]
       IN IF Len(recent_credits) < 3 THEN Rat(0, 1)
          ELSE LET prev_credits == recent_credits[2]
                   current_credits == recent_credits[3]
               IN IF prev_credits > 0
                  THEN Rat(current_credits - prev_credits, prev_credits)
                  ELSE Rat(0, 1)

voteSuccessRate(row) == IF CreditsTruthy(row) THEN VoteRateOfRow(row) ELSE Rat(0, 1)

\* a precedes b in sort_values('stakeSOL', ascending=False): NaN goes last
StakeBefore(a, b) ==
  IF a["stakeSOL"].t = "nan" THEN FALSE
  ELSE IF b["stakeSOL"].t = "nan" THEN TRUE
  ELSE DecLt(b["stakeSOL"], a["stakeSOL"])

RECURSIVE InsertByStake(_, _)
InsertByStake(x, sorted) ==
  IF Len(sorted) = 0 THEN <<x>>
  ELSE IF StakeBefore(x, Head(sorted)) THEN <<x>> \o sorted
  ELSE <<Head(sorted)>> \o InsertByStake(x, Tail(sorted))

\* a stable sort: rows with equal stake keep their input order
RECURSIVE SortRowsByStake(_)
SortRowsByStake(rows) ==
  IF Len(rows) = 0 THEN <<>>
  ELSE InsertByStake(rows[Len(rows)], SortRowsByStake(SubSeq(rows, 1, Len(rows) - 1)))

SortByStakeDesc(df) == [df EXCEPT !.rows = SortRowsByStake(df.rows)]

process_validators_data(validators) ==
  IF Len(validators) = 0 THEN Ok(EmptyDF)
  ELSE
    LET df0 == DataFrame(validators)
        bad == "activatedStake" \in df0.columns
               /\ \E i \in 1..Len(df0.rows) : AsTypeFloat(df0.rows[i]["activatedStake"]).raised
        df1 == IF "activatedStake" \in df0.columns
               THEN WithColumn(df0, "stakeSOL",
                      LAMBDA r : DivLamports(AsTypeFloat(r["activatedStake"]).value))
               ELSE df0
        df2 == IF "epochVoteAccount" \in df1.columns /\ "commission" \in df1.columns
               THEN WithColumn(df1, "voteSuccessRate", voteSuccessRate)
               ELSE df1
        df3 == IF "stakeSOL" \in df2.columns THEN SortByStakeDesc(df2) ELSE df2
    IN IF bad THEN Raise("ValueError") ELSE Ok(df3)

\* a precedes b in sort_values('slot')
SlotRank_descending(rows, i) ==
  1 + Cardinality({j \in 1..Len(rows) :
                     \/ rows[j]["slot"] > rows[i]["slot"]
                     \/ rows[j]["slot"] = rows[i]["slot"] /\ j < i})

\* the place of row i after sort_values('slot'): rows of equal slot keep their order
SlotRank(rows, i) ==
  1 + Cardinality({j \in 1..Len(rows) :
                     \/ rows[j]["slot"] < rows[i]["slot"]
                     \/ rows[j]["slot"] = rows[i]["slot"] /\ j < i})

SortRowsBySlot(rows) ==
  [k \in 1..Len(rows) |-> rows[CHOOSE i \in 1..Len(rows) : SlotRank(rows, i) = k]]

\* the samples the adapter returns all carry a slot
process_performance_data(performance_samples) ==
  IF Len(performance_samples) = 0 THEN EmptyDF
  ELSE LET df == DataFrame(performance_samples)
       IN IF "slot" \in df.columns
          THEN LET sorted == SortRowsBySlot(df.rows)
               IN [columns |-> df.columns \cup {"time_index"},
                   rows |-> [i \in 1..Len(sorted) |-> DictSet(sorted[i], "time_index", i - 1)]]
          ELSE df

\* pd.cut bins: (0, 1000], (1000, 10000], (10000, 100000], (100000, 1000000], (1000000, inf]
BinEdges == <<0, 1000, 10000, 100000, 1000000>>

BucketLabels == <<"<1K SOL", "1K-10K SOL", "10K-100K SOL", "100K-1M SOL", ">1M SOL">>

NoBucket == "NaN"

\* edge < x, for x a float and edge a whole number
AboveEdge(x, edge) == x.ip > edge \/ (x.ip = edge /\ x.fp > 0)

\* pd.cut(x, bins) with the default right=True, include_lowest=False
cut(x) ==
  IF x.t # "dec" THEN NoBucket
  ELSE IF ~AboveEdge(x, BinEdges[1]) THEN NoBucket
  ELSE LET i == CHOOSE j \in 1..Len(BinEdges) :
                  /\ AboveEdge(x, BinEdges[j])
                  /\ (j = Len(BinEdges) \/ ~AboveEdge(x, BinEdges[j + 1]))
       IN BucketLabels[i]

\* df['stakeSOL'].sum(): NaN cells are skipped
RECURSIVE SumStakeSOL(_)
SumStakeSOL(rows) ==
  IF Len(rows) = 0 THEN DecZero
  ELSE LET rest == SumStakeSOL(SubSeq(rows, 1, Len(rows) - 1))
           x == rows[Len(rows)]["stakeSOL"]
       IN IF x.t = "nan" THEN rest ELSE DecAdd(rest, x)

\* df['stakeSOL'] / total_stake * 100: float division, NaN / x and 0 / 0 are NaN
\* (stakes are not negative, so a total of 0 means every stake is 0)
stake_percentage(x, total_stake) ==
  IF x.t = "nan" \/ DecIsZero(total_stake) THEN NaNV ELSE Pct(x, total_stake)

\* Series.cumsum(): the running sum skips NaN cells and leaves NaN in their place
cumsum(rows, i, total_stake) ==
  IF rows[i]["stake_percentage"].t = "nan" THEN NaNV
  ELSE Pct(SumStakeSOL(SubSeq(rows, 1, i)), total_stake)

\* validators_df is the table in session state; [has |-> FALSE] when the key is missing
get_stake_distribution_data(validators_df) ==
  IF ~validators_df.has THEN EmptyDF
  ELSE IF Len(validators_df.df.rows) = 0 THEN EmptyDF
  ELSE IF "stakeSOL" \notin validators_df.df.columns THEN EmptyDF
  ELSE
    LET total_stake == SumStakeSOL(validators_df.df.rows)
        df1 == SortByStakeDesc(validators_df.df)
        df2 == WithColumn(df1, "stake_percentage",
                          LAMBDA r : stake_percentage(r["stakeSOL"], total_stake))
        df3 == [columns |-> df2.columns \cup {"cumulative_percentage"},
                rows |-> [i \in 1..Len(df2.rows) |->
                            DictSet(df2.rows[i], "cumulative_percentage",
                                    cumsum(df2.rows, i, total_stake))]]
    IN WithColumn(df3, "stake_bucket", LAMBDA r : cut(r["stakeSOL"]))

\* src/components/stake_distribution.py, get_validator_threshold without the + 1
get_validator_threshold_noadd(df, percentage) ==
  IF Len(df.rows) = 0 \/ "cumulative_percentage" \notin df.columns THEN NoneV
  ELSE LET hits == {i \in 1..Len(df.rows) :
                      PctGe(df.rows[i]["cumulative_percentage"], percentage)}
       IN IF hits # {}
          THEN [t |-> "count", n |-> (CHOOSE i \in hits : \A j \in hits : i <= j) - 1]
          ELSE [t |-> "count", n |-> Len(df.rows)]

\* get_validator_threshold with the comparison turned round
get_validator_threshold_flipped(df, percentage) ==
  IF Len(df.rows) = 0 \/ "cumulative_percentage" \notin df.columns THEN NoneV
  ELSE LET hits == {i \in 1..Len(df.rows) :
                      /\ df.rows[i]["cumulative_percentage"].t = "pct"
                      /\ DecLe(DecScale(df.rows[i]["cumulative_percentage"].num, 100),
                               DecScale(df.rows[i]["cumulative_percentage"].den, percentage))}
       IN IF hits # {}
          THEN [t |-> "count", n |-> CHOOSE i \in hits : \A j \in hits : i <= j]
          ELSE [t |-> "count", n |-> Len(df.rows)]

\* src/components/stake_distribution.py, get_validator_threshold: the rows are numbered
\* from 0 (reset_index), so index.min() + 1 is the position of the first row that
\* reaches the percentage; the result is None or a count n
get_validator_threshold(df, percentage) ==
  IF Len(df.rows) = 0 \/ "cumulative_percentage" \notin df.columns THEN NoneV
  ELSE LET hits == {i \in 1..Len(df.rows) :
                      PctGe(df.rows[i]["cumulative_percentage"], percentage)}
       IN IF hits # {}
          THEN [t |-> "count", n |-> CHOOSE i \in hits : \A j \in hits : i <= j]
          ELSE [t |-> "count", n |-> Len(df.rows)]

NotShown == [shown |-> FALSE]

\* the target percentages of render_concentration_view
StakeTargets == {33, 50, 66, 90}

\* src/components/stake_distribution.py, render_stake_distribution lines 13-17 and
\* render_concentration_view lines 43-48
render_concentration_view(df) ==
  IF Len(df.rows) = 0 THEN NotShown
  ELSE [shown |-> TRUE,
        stake_thresholds |-> [p \in StakeTargets |-> get_validator_threshold(df, p)]]

\* src/components/stake_distribution.py, render_size_distribution: the validator_count
\* of every observed bucket (rows whose bucket is NaN belong to no group)
size_distribution(df) ==
  IF "stake_bucket" \notin df.columns THEN [b \in {} |-> 0]
  ELSE LET observed == {df.rows[i]["stake_bucket"] : i \in 1..Len(df.rows)} \ {NoBucket}
       IN [b \in observed |->
             Cardinality({i \in 1..Len(df.rows) : df.rows[i]["stake_bucket"] = b})]

-----------------------------------------------------------------------------
(* Statistics engine *)

TopN == 10

PctZero == Pct(DecZero, DecV(1, 0))

\* src/utils/solana_client.py, get_total_stake
RECURSIVE get_total_stake(_)
get_total_stake(validators) ==
  IF Len(validators) = 0 THEN DecZero
  ELSE LET rest == get_total_stake(SubSeq(validators, 1, Len(validators) - 1))
           f == PyFloat(DictGet(validators[Len(validators)], "activatedStake", IntV(0, 0)))
       IN IF f.raised THEN rest ELSE DecAdd(rest, DivLamports(f.value))

\* the key of sorted(validators, key=lambda v: float(v.get('activatedStake', 0)), reverse=True)
StakeKey(v) == PyFloat(DictGet(v, "activatedStake", IntV(0, 0)))

KeyBefore(a, b) == DecLt(DivLamports(StakeKey(b).value), DivLamports(StakeKey(a).value))

RECURSIVE InsertByKey(_, _)
InsertByKey(x, sorted) ==
  IF Len(sorted) = 0 THEN <<x>>
  ELSE IF KeyBefore(x, Head(sorted)) THEN <<x>> \o sorted
  ELSE <<Head(sorted)>> \o InsertByKey(x, Tail(sorted))

RECURSIVE SortByKey(_)
SortByKey(validators) ==
  IF Len(validators) = 0 THEN <<>>
  ELSE InsertByKey(validators[Len(validators)],
                   SortByKey(SubSeq(validators, 1, Len(validators) - 1)))

RECURSIVE SumStake(_)
SumStake(validators) ==
  IF Len(validators) = 0 THEN DecZero
  ELSE DecAdd(SumStake(Tail(validators)), DivLamports(StakeKey(Head(validators)).value))

Min(a, b) == IF a < b THEN a ELSE b

\* the validator statistics without the "if validators:" guard of line 127
ValidatorStats_noguard(validators) ==
  LET n == Len(validators)
      delinq == Cardinality({i \in 1..n : DictGet(validators[i], "delinquent", FALSE)})
      total_stake == get_total_stake(validators)
  IN Ok([total_validators |-> n, active_validators |-> n - delinq,
         delinquent_validators |-> delinq, total_active_stake |-> total_stake,
         stake_concentration_top10 |-> PctZero])

\* lines 127-143
ValidatorStats(validators) ==
  IF Len(validators) = 0 THEN Ok(EmptyDict)
  ELSE
    LET n == Len(validators)
        delinq == Cardinality({i \in 1..n : DictGet(validators[i], "delinquent", FALSE)})
        total_stake == get_total_stake(validators)
        base == [total_validators |-> n,
                 active_validators |-> n - delinq,
                 delinquent_validators |-> delinq,
                 total_active_stake |-> total_stake]
    IN IF DecLt(DecZero, total_stake)
       THEN IF \E i \in 1..n : StakeKey(validators[i]).raised
            THEN Raise((CHOOSE r \in {StakeKey(validators[i]) : i \in 1..n} : r.raised).exc)
            ELSE LET sorted_validators == SortByKey(validators)
                     top10_stake == SumStake(SubSeq(sorted_validators, 1, Min(TopN, n)))
                 IN Ok(DictSet(base, "stake_concentration_top10", Pct(top10_stake, total_stake)))
       ELSE Ok(DictSet(base, "stake_concentration_top10", PctZero))

\* lines 150-157
SupplyStats(stats, supply_info) ==
  IF DOMAIN supply_info = {} \/ "total_active_stake" \notin DOMAIN stats THEN Ok(stats)
  ELSE
    LET circ == IF "circulating" \in DOMAIN supply_info
                THEN PyFloat(supply_info["circulating"]) ELSE Ok(NaNV)
        tot == IF "total" \in DOMAIN supply_info
               THEN PyFloat(supply_info["total"]) ELSE Ok(NaNV)
        s1 == IF "circulating" \in DOMAIN supply_info
              THEN DictSet(stats, "staking_rate",
               Pct(stats["total_active_stake"], DivLamports(circ.value)))
              ELSE stats
        s2 == IF "total" \in DOMAIN supply_info
              THEN DictSet(s1, "total_supply", DivLamports(tot.value))
              ELSE s1
    IN IF circ.raised THEN Raise(circ.exc)
       ELSE IF "circulating" \in DOMAIN supply_info /\ DecIsZero(DivLamports(circ.value))
       THEN Raise("ZeroDivisionError")
       ELSE IF tot.raised THEN Raise(tot.exc)
       ELSE Ok(s2)

calculate_network_stats(validators, epoch_info, supply_info, inflation_info) ==
  LET v == ValidatorStats(validators)
  IN IF v.raised THEN v
     ELSE LET s1 == IF DOMAIN epoch_info # {} THEN DictUpdate(v.value, epoch_info) ELSE v.value
              s2 == SupplyStats(s1, supply_info)
          IN IF s2.raised THEN s2
             ELSE Ok(IF DOMAIN inflation_info # {}
                     THEN DictUpdate(s2.value, inflation_info) ELSE s2.value)

\* src/components/stake_distribution.py, calculate_gini_coefficient, on whole-number values
RECURSIVE InsertAsc(_, _)
InsertAsc(x, sorted) ==
  IF Len(sorted) = 0 THEN <<x>>
  ELSE IF x < Head(sorted) THEN <<x>> \o sorted
  ELSE <<Head(sorted)>> \o InsertAsc(x, Tail(sorted))

RECURSIVE SortAsc(_)
SortAsc(array) ==
  IF Len(array) = 0 THEN <<>>
  ELSE InsertAsc(array[Len(array)], SortAsc(SubSeq(array, 1, Len(array) - 1)))

RECURSIVE SumSeq(_)
SumSeq(array) == IF Len(array) = 0 THEN 0 ELSE Head(array) + SumSeq(Tail(array))

\* calculate_gini_coefficient without the np.sort of line 286
calculate_gini_coefficient_nosort(array) ==
  IF Len(array) = 0 \/ SumSeq(array) = 0 THEN Ok(Rat(0, 1))
  ELSE LET n == Len(array)
           weighted == [i \in 1..n |-> (2 * i - n - 1) * array[i]]
       IN Ok(Rat(SumSeq(weighted), n * SumSeq(array)))

\* calculate_gini_coefficient with index = np.arange(n) in place of np.arange(1, n + 1)
calculate_gini_coefficient_index0(array) ==
  IF Len(array) = 0 \/ SumSeq(array) = 0 THEN Ok(Rat(0, 1))
  ELSE LET sorted == SortAsc(array)
           n == Len(sorted)
           weighted == [i \in 1..n |-> (2 * (i - 1) - n - 1) * sorted[i]]
       IN Ok(Rat(SumSeq(weighted), n * SumSeq(sorted)))

calculate_gini_coefficient(array) ==
  IF Len(array) = 0 \/ SumSeq(array) = 0 THEN Ok(Rat(0, 1))
  ELSE LET sorted == SortAsc(array)
           n == Len(sorted)
           weighted == [i \in 1..n |-> (2 * i - n - 1) * sorted[i]]
       IN Ok(Rat(SumSeq(weighted), n * SumSeq(sorted)))

-----------------------------------------------------------------------------
(* Presentation layer: the derived metrics computed while rendering *)

\* src/components/overview.py lines 12-16 and 51-60: the "Current Epoch" progress
render_overview(has_stats, stats, validators_df) ==
  IF ~has_stats \/ ~validators_df.has THEN Ok(NotShown)
  ELSE IF Len(validators_df.df.rows) = 0 THEN Ok(NotShown)
  ELSE IF {"epoch", "slotIndex", "slotsInEpoch"} \subseteq DOMAIN stats
       THEN IF stats["slotsInEpoch"] = 0 THEN Raise("ZeroDivisionError")
            ELSE Ok([shown |-> TRUE,
                     epoch_progress |-> Rat(stats["slotIndex"] * 100, stats["slotsInEpoch"])])
       ELSE Ok(NotShown)

SecondsPerDay == 86400

SecondsPerHour == 3600

SecondsPerMinute == 60

\* lines 184-197: avg_slots_per_second is the fraction num / den
time_remaining(stats) ==
  IF "avg_slots_per_second" \in DOMAIN stats /\ stats["avg_slots_per_second"].num > 0
  THEN LET avg == stats["avg_slots_per_second"]
           slots_remaining == stats["slotsInEpoch"] - stats["slotIndex"]
           q == slots_remaining * avg.den
           r1 == q % (avg.num * SecondsPerDay)
           r2 == r1 % (avg.num * SecondsPerHour)
       IN [shown |-> TRUE,
           days |-> q \div (avg.num * SecondsPerDay),
           hours |-> r1 \div (avg.num * SecondsPerHour),
           minutes |-> r2 \div (avg.num * SecondsPerMinute)]
  ELSE NotShown

\* src/components/network_stats.py lines 141-142 and 178-197
render_epoch_staking_stats(has_stats, stats) ==
  IF ~has_stats THEN Ok(NotShown)
  ELSE IF {"slotIndex", "slotsInEpoch"} \subseteq DOMAIN stats
       THEN IF stats["slotsInEpoch"] = 0 THEN Raise("ZeroDivisionError")
            ELSE Ok([shown |-> TRUE,
                     epoch_progress |-> Rat(stats["slotIndex"], stats["slotsInEpoch"]),
                     time_remaining |-> time_remaining(stats)])
       ELSE Ok(NotShown)

\* a / b on floats holding whole numbers a, b >= 0: pandas gives inf for x / 0 and NaN
\* for 0 / 0; a finite quotient is kept as the exact fraction
InfV == [t |-> "inf"]

FloatDiv(a, b) == IF b = 0 THEN (IF a = 0 THEN NaNV ELSE InfV) ELSE [t |-> "rat", num |-> a, den |-> b]

\* exact sum of two quotients; a shared denominator is kept
RatAdd(a, b) ==
  IF a.den = b.den THEN Rat(a.num + b.num, a.den)
  ELSE Rat(a.num * b.den + b.num * a.den, a.den * b.den)

RECURSIVE SumRatsIn(_, _, _)
SumRatsIn(xs, lo, hi) ==
  IF lo = hi THEN Rat(xs[lo].num, xs[lo].den)
  ELSE LET mid == (lo + hi) \div 2
       IN RatAdd(SumRatsIn(xs, lo, mid), SumRatsIn(xs, mid + 1, hi))

SumRats(xs) == IF Len(xs) = 0 THEN Rat(0, 1) ELSE SumRatsIn(xs, 1, Len(xs))

\* Series.mean(): NaN cells are skipped, the mean of nothing is NaN
mean(xs) ==
  LET kept == SelectSeq(xs, LAMBDA x : x.t # "nan")
  IN IF Len(kept) = 0 THEN NaNV
     ELSE IF \E i \in 1..Len(kept) : kept[i].t = "inf" THEN InfV
     ELSE LET total == SumRats(kept)
          IN [t |-> "rat", num |-> total.num, den |-> total.den * Len(kept)]

max_first(xs) ==
  LET kept == SelectSeq(xs, LAMBDA x : x.t # "nan")
  IN IF Len(kept) = 0 THEN NaNV ELSE kept[1]

\* Series.max(): NaN cells are skipped
max(xs) ==
  LET kept == SelectSeq(xs, LAMBDA x : x.t # "nan")
  IN IF Len(kept) = 0 THEN NaNV
     ELSE IF \E i \in 1..Len(kept) : kept[i].t = "inf" THEN InfV
     ELSE kept[CHOOSE i \in 1..Len(kept) :
                 \A j \in 1..Len(kept) : kept[j].num * kept[i].den <= kept[i].num * kept[j].den]

\* src/utils/data_processor.py, get_performance_metrics; performance_df is the table in
\* session state, [has |-> FALSE] when the key is missing; the cells of the three
\* columns it reads are whole numbers
get_performance_metrics(performance_df) ==
  IF ~performance_df.has THEN EmptyDict
  ELSE IF Len(performance_df.df.rows) = 0 THEN EmptyDict
  ELSE
    LET df == performance_df.df
        n == Len(df.rows)
    IN IF {"numTransactions", "numSlots", "samplePeriodSecs"} \subseteq df.columns
       THEN LET tps == [i \in 1..n |->
                          FloatDiv(df.rows[i]["numTransactions"], df.rows[i]["samplePeriodSecs"])]
                sps == [i \in 1..n |->
                          FloatDiv(df.rows[i]["numSlots"], df.rows[i]["samplePeriodSecs"])]
            IN [avg_tps |-> mean(tps),
                max_tps |-> max(tps),
                avg_slots_per_second |-> mean(sps),
                tps_time_series |->
                  IF "time_index" \in df.columns
                  THEN [i \in 1..n |-> <<df.rows[i]["time_index"], tps[i]>>]
                  ELSE <<>>]
       ELSE EmptyDict

\* src/components/network_stats.py, render_network_stats: the metrics go to the
\* performance tab, the epoch tab reads the network statistics of the session state
render_network_stats(has_stats, stats, performance_df) ==
  IF ~has_stats THEN Ok(NotShown)
  ELSE LET performance_metrics == get_performance_metrics(performance_df)
           tab2 == render_epoch_staking_stats(TRUE, stats)
       IN IF tab2.raised THEN tab2
          ELSE Ok([shown |-> TRUE,
                   performance_metrics |-> performance_metrics,
                   epoch |-> tab2.value])

-----------------------------------------------------------------------------
(* Validator performance, src/components/validator_performance.py.             *)
(* The cells of the commission column are whole numbers; the stakes of the     *)
(* tables it is run on are whole SOL, so that sums of products stay exact.     *)

\* src/utils/data_processor.py, get_validator_performance_data: the columns of the
\* analysis under their new names, sorted by stake
get_validator_performance_data(validators_df) ==
  IF ~validators_df.has THEN EmptyDF
  ELSE IF Len(validators_df.df.rows) = 0 THEN EmptyDF
  ELSE
    LET df == validators_df.df
    IN IF {"nodePubkey", "stakeSOL", "commission"} \subseteq df.columns
       THEN LET sorted == SortRowsByStake(df.rows)
            IN [columns |-> {"Validator", "Stake (SOL)", "Commission (%)", "delinquent",
                             "Vote Success Rate"},
                rows |-> [i \in 1..Len(sorted) |->
                  [Validator |-> sorted[i]["nodePubkey"],
                   stake |-> sorted[i]["stakeSOL"],
                   commission |-> sorted[i]["commission"],
                   delinquent |-> sorted[i]["delinquent"],
                   voteSuccessRate |-> IF "voteSuccessRate" \in df.columns
                                       THEN sorted[i]["voteSuccessRate"] ELSE Rat(0, 1)]]]
       ELSE EmptyDF

\* render_validator_performance lines 44-50: the three filters (a NaN stake passes none)
filtered_df(df, filter_stake, max_commission, show_delinquent) ==
  [df EXCEPT !.rows = SelectSeq(df.rows, LAMBDA r :
     /\ DecLe(DecV(filter_stake, 0), r.stake)
     /\ r.commission <= max_commission
     /\ (show_delinquent \/ ~r.delinquent))]

\* df['Commission (%)'].mode().iloc[0]: the most frequent value, the least of them on a tie
most_common_commission(rows) ==
  LET count(c) == Cardinality({i \in 1..Len(rows) : rows[i].commission = c})
      modes == {rows[i].commission : i \in {j \in 1..Len(rows) :
                  \A k \in 1..Len(rows) : count(rows[k].commission) <= count(rows[j].commission)}}
  IN CHOOSE c \in modes : \A d \in modes : c <= d

RECURSIVE WeightedSum(_)
WeightedSum(rows) ==
  IF Len(rows) = 0 THEN DecZero
  ELSE DecAdd(WeightedSum(Tail(rows)), DecScale(Head(rows).stake, Head(rows).commission))

RECURSIVE SumWeights(_)
SumWeights(rows) ==
  IF Len(rows) = 0 THEN DecZero ELSE DecAdd(SumWeights(Tail(rows)), Head(rows).stake)

\* np.average(a, weights=w): sum(a * w) / sum(w), ZeroDivisionError when the weights
\* sum to zero; the quotient is kept exact
average(rows) ==
  IF DecIsZero(SumWeights(rows)) THEN Raise("ZeroDivisionError")
  ELSE Ok([t |-> "quot", num |-> WeightedSum(rows), den |-> SumWeights(rows)])

\* a correlation coefficient r, kept exact as its sign and its square num / den
CorrV(sg, n, d) == [t |-> "corr", sign |-> sg, num |-> n, den |-> d]

Sign(x) == IF x > 0 THEN 1 ELSE IF x < 0 THEN -1 ELSE 0

\* Series.corr(other): Pearson's r, NaN for fewer than two rows or a constant column
corr(rows) ==
  LET n == Len(rows)
      x == [i \in 1..n |-> rows[i].stake.ip]
      y == [i \in 1..n |-> rows[i].commission]
      sx == SumSeq(x)
      sy == SumSeq(y)
      cov == n * SumSeq([i \in 1..n |-> x[i] * y[i]]) - sx * sy
      vx == n * SumSeq([i \in 1..n |-> x[i] * x[i]]) - sx * sx
      vy == n * SumSeq([i \in 1..n |-> y[i] * y[i]]) - sy * sy
  IN IF n < 2 \/ vx = 0 \/ vy = 0 THEN NaNV ELSE CorrV(Sign(cov), cov * cov, vx * vy)

\* abs(correlation) < tenths / 10 (False for NaN)
AbsBelow(correlation, tenths) ==
  /\ correlation.t = "corr"
  /\ 100 * correlation.num < tenths * tenths * correlation.den

\* abs(correlation) <= tenths / 10
AbsAtMost(correlation, tenths) ==
  /\ correlation.t = "corr"
  /\ 100 * correlation.num <= tenths * tenths * correlation.den

\* the if / elif chain of lines 318-327 with <= in place of <
interpretation_inclusive(correlation) ==
  IF AbsAtMost(correlation, 1) THEN "Very weak or no relationship"
  ELSE IF AbsAtMost(correlation, 3) THEN "Weak relationship"
  ELSE IF AbsAtMost(correlation, 5) THEN "Moderate relationship"
  ELSE IF AbsAtMost(correlation, 7) THEN "Strong relationship"
  ELSE "Very strong relationship"

\* lines 318-327
interpretation(correlation) ==
  IF AbsBelow(correlation, 1) THEN "Very weak or no relationship"
  ELSE IF AbsBelow(correlation, 3) THEN "Weak relationship"
  ELSE IF AbsBelow(correlation, 5) THEN "Moderate relationship"
  ELSE IF AbsBelow(correlation, 7) THEN "Strong relationship"
  ELSE "Very strong relationship"

\* line 329: correlation > 0 is False for NaN
direction(correlation) ==
  IF correlation.t = "corr" /\ correlation.sign > 0 THEN "positive" ELSE "negative"

\* the "Correlation: Stake vs Commission" metric of lines 331-335
correlation_metric(correlation) ==
  [correlation |-> correlation,
   interpretation |-> interpretation(correlation),
   direction |-> direction(correlation)]

\* lines 205-206: the bins and labels of the commission ranges
CommissionEdges == <<0, 1, 5, 10, 20, 50, 100>>

CommissionLabels == <<"0-1%", "1-5%", "5-10%", "10-20%", "20-50%", "50-100%">>

\* lines 203-207: pd.cut with the default right=True, include_lowest=False, so the
\* ranges are (0, 1], (1, 5], ..., (50, 100] and a value outside them gets NaN
commission_buckets(commission) ==
  IF commission <= CommissionEdges[1] \/ commission > CommissionEdges[Len(CommissionEdges)]
  THEN NoBucket
  ELSE CommissionLabels[CHOOSE j \in 1..Len(CommissionLabels) :
                          /\ CommissionEdges[j] < commission
                          /\ commission <= CommissionEdges[j + 1]]

\* lines 210-222: groupby(commission_buckets, observed=True) drops the rows whose
\* range is NaN; the percentages are taken of the sums over the observed ranges
commission_stats(rows) ==
  LET observed == {commission_buckets(rows[i].commission) : i \in 1..Len(rows)} \ {NoBucket}
      group(b) == SelectSeq(rows, LAMBDA r : commission_buckets(r.commission) = b)
      grouped == SelectSeq(rows, LAMBDA r : commission_buckets(r.commission) # NoBucket)
      total_stake == SumWeights(grouped)
      total_validators == Len(grouped)
  IN [b \in observed |->
        [validator_count |-> Len(group(b)),
         total_stake |-> SumWeights(group(b)),
         stake_percentage |->
           IF DecIsZero(total_stake) THEN NaNV
           ELSE [t |-> "quot", num |-> DecScale(SumWeights(group(b)), 100), den |-> total_stake],
         validator_percentage |-> Pct(Len(group(b)), total_validators)]]

\* render_commission_analysis: the commission ranges of lines 202-222, then the
\* "Commission Rate Insights" of lines 294-335
render_commission_analysis(df) ==
  IF Len(df.rows) = 0 THEN Ok(NotShown)
  ELSE LET commission_weighted_avg == average(df.rows)
       IN IF commission_weighted_avg.raised THEN commission_weighted_avg
          ELSE Ok([shown |-> TRUE,
                   commission_stats |-> commission_stats(df.rows),
                   most_common_commission |-> most_common_commission(df.rows),
                   commission_weighted_avg |-> commission_weighted_avg.value,
                   metric |-> correlation_metric(corr(df.rows))])

\* render_validator_performance: nothing is analysed without performance data
render_validator_performance(validators_df, filter_stake, max_commission, show_delinquent) ==
  LET df == get_validator_performance_data(validators_df)
  IN IF Len(df.rows) = 0 THEN Ok(NotShown)
     ELSE render_commission_analysis(
            filtered_df(df, filter_stake, max_commission, show_delinquent))

\* sequences over pool of length at most n
RECURSIVE SeqsUpTo(_, _)
SeqsUpTo(pool, n) ==
  IF n = 0 THEN {<<>>}
  ELSE LET shorter == SeqsUpTo(pool, n - 1)
       IN shorter \cup {Append(q, x) : q \in {r \in shorter : Len(r) = n - 1}, x \in pool}

VoteObjFull ==
  [node_pubkey |-> "A", vote_pubkey |-> "vA", activated_stake |-> IntV(2, 0),
   commission |-> 5, last_vote |-> 9, root_slot |-> 8,
   epoch_credits |-> ListV(<< <<5, 120, 100>> >>), epoch_vote_account |-> TRUE]

VoteObjPartial == [node_pubkey |-> "B"]

VoteDictA ==
  [nodePubkey |-> "A", activatedStake |-> IntV(2, 0), commission |-> 5,
   epochCredits |-> ListV(<< <<5, 120, 100>> >>), epochVoteAccount |-> TRUE]

VoteDictB ==
  [nodePubkey |-> "B", activatedStake |-> IntV(1, 500000000), commission |-> 10,
   epochCredits |-> ListV(<< <<5, 100, 0>> >>), epochVoteAccount |-> TRUE]

AsObj(f) == [isdict |-> FALSE, f |-> f]

AsDict(f) == [isdict |-> TRUE, f |-> f]

ExceptionResponse == [kind |-> "exception"]

OtherResponse == [kind |-> "other"]

ObjectResponse(v) == [kind |-> "object", value |-> v]

DictResponse(b) == [kind |-> "dict", body |-> b]

ErrorBody == [error |-> 1]

VoteResponses ==
  {ExceptionResponse, OtherResponse, DictResponse(ErrorBody),
   ObjectResponse(EmptyDict),
   ObjectResponse([current |-> <<AsObj(VoteObjFull)>>, delinquent |-> <<AsObj(VoteObjPartial)>>]),
   ObjectResponse([current |-> <<AsObj(VoteObjFull), AsObj(VoteObjPartial)>>]),
   ObjectResponse([current |-> <<AsDict(VoteDictA)>>, delinquent |-> <<AsDict(VoteDictB)>>]),
   ObjectResponse([current |-> <<AsDict(VoteDictA), AsObj(VoteObjPartial)>>, delinquent |-> <<>>]),
   DictResponse([result |-> [current |-> <<AsDict(VoteDictA)>>, delinquent |-> <<AsDict(VoteDictB)>>]]),
   DictResponse([result |-> [current |-> <<AsDict(VoteDictA), AsDict(VoteDictB)>>,
                             delinquent |-> <<AsDict(VoteDictB), AsDict(VoteDictA)>>]]),
   DictResponse([result |-> [current |-> <<AsDict(VoteDictA)>>]]),
   DictResponse([result |-> [delinquent |-> <<AsDict(VoteDictB)>>]])}

EpochValues ==
  {EmptyDict,
   [epoch |-> 5],
   [epoch |-> 5, slot_index |-> 1, slots_in_epoch |-> 4],
   [epoch |-> 5, slot_index |-> 0, slots_in_epoch |-> 0, absolute_slot |-> 20,
    block_height |-> 18, transaction_count |-> 7]}

EpochResults ==
  {EmptyDict,
   [epoch |-> 5, slotIndex |-> 1],
   [epoch |-> 5, slotIndex |-> 1, slotsInEpoch |-> 4, absoluteSlot |-> 21, blockHeight |-> 19]}

EpochResponses ==
  {ExceptionResponse, OtherResponse, DictResponse(ErrorBody)}
  \cup {ObjectResponse(v) : v \in EpochValues}
  \cup {DictResponse([result |-> r]) : r \in EpochResults}

SupplyValues ==
  {EmptyDict,
   [total |-> IntV(10, 0)],
   [total |-> IntV(10, 0), circulating |-> IntV(0, 0), non_circulating |-> IntV(10, 0)],
   [total |-> IntV(10, 0), circulating |-> IntV(8, 0), non_circulating |-> IntV(2, 0)]}

SupplyResults ==
  {EmptyDict,
   [value |-> [total |-> IntV(10, 0), circulating |-> IntV(8, 0), nonCirculating |-> IntV(2, 0)]],
   [value |-> [circulating |-> IntV(8, 0)]]}

SupplyResponses ==
  {ExceptionResponse, OtherResponse, DictResponse(ErrorBody)}
  \cup {ObjectResponse(v) : v \in SupplyValues}
  \cup {DictResponse([result |-> r]) : r \in SupplyResults}

SampleObjs ==
  {[slot |-> 2, num_transactions |-> 2000, num_slots |-> 10, sample_period_secs |-> 10],
   [slot |-> 1, num_transactions |-> 1000, num_slots |-> 10, sample_period_secs |-> 10],
   [slot |-> 3],
   [num_transactions |-> 5]}

SampleDicts ==
  {[slot |-> 2, numTransactions |-> 2000, numSlots |-> 10, samplePeriodSecs |-> 10],
   [slot |-> 1, numTransactions |-> 1000, numSlots |-> 10, samplePeriodSecs |-> 10]}

PerformanceResponses ==
  {ExceptionResponse, OtherResponse, DictResponse(ErrorBody),
   ObjectResponse([iterable |-> FALSE])}
  \cup {ObjectResponse([iterable |-> TRUE, items |-> q]) : q \in SeqsUpTo(SampleObjs, MaxValidators)}
  \cup {DictResponse([result |-> q]) : q \in SeqsUpTo(SampleDicts, MaxValidators)}

InflationValues ==
  {EmptyDict,
   [total |-> 8, validator |-> 7],
   [total |-> 8, validator |-> 7, foundation |-> 1, epoch |-> 6]}

InflationResponses ==
  {ExceptionResponse, OtherResponse, DictResponse(ErrorBody)}
  \cup {ObjectResponse(v) : v \in InflationValues}
  \cup {DictResponse([result |-> v]) : v \in InflationValues}

\* validator records as the adapter returns them, some with missing or partial fields
ValidatorPool ==
  {DictSet(VoteDictA, "delinquent", FALSE),
   DictSet(VoteDictB, "delinquent", TRUE),
   [nodePubkey |-> "C", commission |-> 0, epochVoteAccount |-> TRUE, delinquent |-> FALSE],
   [nodePubkey |-> "D", activatedStake |-> NoneV, commission |-> 7,
    epochCredits |-> ListV(<<>>), epochVoteAccount |-> TRUE, delinquent |-> FALSE],
   [nodePubkey |-> "E", activatedStake |-> StrV, commission |-> 7,
    epochCredits |-> ListV(<< <<5, 7>> >>), epochVoteAccount |-> TRUE, delinquent |-> TRUE],
   [nodePubkey |-> "F", activatedStake |-> IntV(0, 0), commission |-> 100,
    epochCredits |-> ListV(<< <<4, 50, 40>>, <<5, 60, 50>> >>), epochVoteAccount |-> FALSE,
    delinquent |-> FALSE],
   [nodePubkey |-> "G", activatedStake |-> IntV(3, 0),
    epochCredits |-> ListV(<< <<5, 120, 100>> >>), delinquent |-> FALSE]}

\* whole-SOL stakes around the edges of the stake-size bands
BandStakes ==
  {IntV(0, 0), IntV(0, 1), IntV(999, 999999999), IntV(1000, 0), IntV(1000, 1),
   IntV(10000, 0), IntV(100000, 0), IntV(1000000, 0), IntV(1000001, 0)}

BandPool ==
  {[nodePubkey |-> "A", activatedStake |-> a, commission |-> 5, delinquent |-> FALSE] :
     a \in BandStakes}

\* stakes of a few whole SOL, one of half a SOL and a null one, for the shares of stake
ShareStakes == {IntV(k, 0) : k \in 0..MaxValue} \cup {IntV(0, 500000000), NoneV}

SharePool ==
  {[nodePubkey |-> "A", activatedStake |-> a, commission |-> 5, delinquent |-> FALSE] :
     a \in ShareStakes}

\* lists of one validator more than the ten that the stake concentration counts: every
\* stake is b but the one at position j, which is a
LargeLists ==
  {[i \in 1..(TopN + 1) |->
      [nodePubkey |-> "A", activatedStake |-> IntV(IF i = j THEN a ELSE b, 0),
       commission |-> 5, delinquent |-> FALSE]] :
     a \in 0..MaxValue, b \in 0..MaxValue, j \in {1, TopN + 1}}

\* the validator lists calculate_network_stats is called on
StatsInputs == SeqsUpTo(ValidatorPool, MaxValidators) \cup LargeLists

\* the tables get_stake_distribution_data is called on
DistributionInputs ==
  SeqsUpTo(BandPool, MaxValidators) \cup SeqsUpTo(SharePool, MaxArrayLen)

\* the tables render_stake_distribution passes on: the non-empty ones
DistributionTables ==
  {t \in {get_stake_distribution_data([has |-> TRUE, df |-> process_validators_data(v).value]) :
            v \in DistributionInputs} : Len(t.rows) > 0}

ThresholdTargets == StakeTargets \cup {0, 1, 100, 101}

EpochInfos ==
  {EmptyDict,
   [epoch |-> 5, slotIndex |-> 1, slotsInEpoch |-> 4, absoluteSlot |-> 21, blockHeight |-> 19],
   [epoch |-> 5, slotIndex |-> 0, slotsInEpoch |-> 0, absoluteSlot |-> 20, blockHeight |-> 18]}

SupplyInfos ==
  {EmptyDict,
   [total |-> IntV(10, 0), circulating |-> IntV(8, 0), nonCirculating |-> IntV(2, 0)],
   [total |-> IntV(10, 0), circulating |-> IntV(0, 0), nonCirculating |-> IntV(10, 0)],
   [total |-> IntV(10, 0)]}

InflationInfos == {EmptyDict, [total |-> 8, validator |-> 7, foundation |-> 1, epoch |-> 6]}

\* stake values in a unit that makes them whole numbers, and the arrays of the example
GiniArrays == SeqsUpTo(0..MaxValue, MaxArrayLen) \cup {<<900, 100>>, <<100, 900>>}

\* performance samples as the adapter returns them: two of the usual kind, one of a
\* period without slots and one of a period of no length
MetricSamples ==
  {[slot |-> 2, numTransactions |-> 2000, numSlots |-> 10, samplePeriodSecs |-> 10],
   [slot |-> 1, numTransactions |-> 1000, numSlots |-> 10, samplePeriodSecs |-> 10],
   [slot |-> 3, numTransactions |-> 0, numSlots |-> 0, samplePeriodSecs |-> 10],
   [slot |-> 4, numTransactions |-> 5, numSlots |-> 4, samplePeriodSecs |-> 0]}

\* what get_version() does at one attempt
VersionResponses ==
  {ExceptionResponse, OtherResponse, DictResponse(ErrorBody), DictResponse([result |-> 1]),
   ObjectResponse(1)}

\* one outcome for each attempt the loop can make
VersionRuns == [1..max_retries -> VersionResponses]

\* more samples than the RPC is asked for, newest first
LongHistory ==
  [i \in 1..(SampleLimit + 1) |->
     [slot |-> SampleLimit + 2 - i, numTransactions |-> 1000 + 10 * i,
      numSlots |-> 20 + (i % 3), samplePeriodSecs |-> 10]]

SampleHistories == SeqsUpTo(MetricSamples, MaxValidators) \cup {LongHistory}

\* a sample as the typed response carries it
AsSampleObj(s) ==
  [slot |-> s["slot"], num_transactions |-> s["numTransactions"],
   num_slots |-> s["numSlots"], sample_period_secs |-> s["samplePeriodSecs"]]

\* the reply of the node to get_recent_performance_samples(limit=60), in either envelope
SamplesResponse(history, shape) ==
  LET reply == get_recent_performance_samples(history, SampleLimit)
  IN IF shape = "object"
     THEN ObjectResponse([iterable |-> TRUE, items |-> [i \in 1..Len(reply) |-> AsSampleObj(reply[i])]])
     ELSE DictResponse([result |-> reply])

NetworkSnapshots ==
  {[epoch_info |-> e,
    samples |-> q,
    stats |-> calculate_network_stats(<<DictSet(VoteDictA, "delinquent", FALSE)>>, e,
                [total |-> IntV(10, 0), circulating |-> IntV(8, 0)], i).value,
    performance_df |-> [has |-> TRUE, df |-> process_performance_data(q)]] :
     e \in EpochInfos, q \in SeqsUpTo(MetricSamples, MaxValidators), i \in InflationInfos}

\* validators with whole-SOL stakes (some of them 0) and commissions of every range
CommissionPool ==
  {[nodePubkey |-> "A", activatedStake |-> IntV(0, 0), commission |-> 0, delinquent |-> FALSE],
   [nodePubkey |-> "B", activatedStake |-> IntV(0, 0), commission |-> 5, delinquent |-> TRUE],
   [nodePubkey |-> "C", activatedStake |-> IntV(1, 0), commission |-> 5, delinquent |-> FALSE],
   [nodePubkey |-> "D", activatedStake |-> IntV(1, 0), commission |-> 0, delinquent |-> FALSE],
   [nodePubkey |-> "E", activatedStake |-> IntV(MaxValue, 0), commission |-> 10,
    delinquent |-> FALSE],
   [nodePubkey |-> "F", activatedStake |-> IntV(MaxValue, 0), commission |-> 100,
    delinquent |-> TRUE]}

\* positions of the "Minimum Stake (SOL)" and "Maximum Commission (%)" sliders
StakeFilters == {0, 1000}

CommissionFilters == {100, 50, 5}

\* correlation values in hundredths, around the edges of the bands, and the undefined one
CorrelationValues ==
  {CorrV(Sign(h), h * h, 10000) :
     h \in {-100, -70, -69, -50, -49, -30, -29, -10, -9, 0, 9, 10, 29, 30, 49, 50, 69, 70, 100}}
  \cup {NaNV}

-----------------------------------------------------------------------------
(* The fetch cycle, src/utils/data_processor.py cache_data *)

\* the session-state keys cache_data assigns, in the order of lines 32-38
\* (largest_stake_accounts, always the empty list, is left out)
Fields ==
  <<"validators_df", "epoch_info", "supply_info", "performance_df", "inflation_info",
    "network_stats">>

FieldSet == {Fields[i] : i \in 1..Len(Fields)}

\* the responses of the five remote calls of one fetch cycle
GoodVotes ==
  ObjectResponse([current |-> <<AsObj(VoteObjFull)>>, delinquent |-> <<AsObj(VoteObjPartial)>>])

BadVotes ==
  DictResponse([result |-> [current |-> <<AsDict([nodePubkey |-> "E", activatedStake |-> StrV])>>,
                delinquent |-> <<>>]])

GoodEpoch == ObjectResponse([epoch |-> 5, slot_index |-> 1, slots_in_epoch |-> 4])

GoodSupply ==
  ObjectResponse([total |-> IntV(10, 0), circulating |-> IntV(8, 0),
                  non_circulating |-> IntV(2, 0)])

ZeroSupply ==
  ObjectResponse([total |-> IntV(10, 0), circulating |-> IntV(0, 0),
                  non_circulating |-> IntV(10, 0)])

GoodSamples ==
  ObjectResponse([iterable |-> TRUE,
                  items |-> <<[slot |-> 1, num_transactions |-> 1000, num_slots |-> 10,
                   sample_period_secs |-> 10]>>])

GoodInflation == ObjectResponse([total |-> 8, validator |-> 7, foundation |-> 1, epoch |-> 5])

Scenario(v, e, s, p, i) == [vote |-> v, epoch |-> e, supply |-> s, perf |-> p, infl |-> i]

Scenarios ==
  {Scenario(ExceptionResponse, ExceptionResponse, ExceptionResponse, ExceptionResponse,
            ExceptionResponse),
   Scenario(GoodVotes, GoodEpoch, GoodSupply, GoodSamples, GoodInflation),
   Scenario(GoodVotes, GoodEpoch, ZeroSupply, GoodSamples, GoodInflation),
   Scenario(BadVotes, GoodEpoch, GoodSupply, GoodSamples, GoodInflation)}

\* lines 23-40: the keys assigned before the body returns or raises, with whether
\* the value assigned is an empty table or mapping
cache_data_body(scn) ==
  LET validators == get_validators(scn.vote).value
      epoch_info == get_epoch_info(scn.epoch).value
      supply_info == get_supply_info(scn.supply).value
      performance_samples == get_recent_performance(scn.perf).value
      inflation_info == get_inflation_info(scn.infl).value
      vdf == process_validators_data(validators)
      pdf == process_performance_data(performance_samples)
      stats == calculate_network_stats(validators, epoch_info, supply_info, inflation_info)
      five == [validators_df |-> Len(vdf.value.rows) = 0,
               epoch_info |-> DOMAIN epoch_info = {},
               supply_info |-> DOMAIN supply_info = {},
               performance_df |-> Len(pdf.rows) = 0,
               inflation_info |-> DOMAIN inflation_info = {}]
  IN IF vdf.raised THEN [raised |-> TRUE, written |-> EmptyDict]
     ELSE IF stats.raised THEN [raised |-> TRUE, written |-> five]
     ELSE [raised |-> FALSE,
           written |-> DictSet(five, "network_stats", DOMAIN stats.value = {})]

\* st.cache_data(ttl=60): an entry serves calls made less than ttl seconds after it was stored
memo_hit(entry, t) == entry.has /\ t - entry.at < CacheTtl

-----------------------------------------------------------------------------
(* The app script, src/app.py: one action per run of the script *)

Networks == {"Mainnet Beta", "Testnet", "Devnet"}

\* the networks the users of the model select
Selectable == {"Mainnet Beta", "Testnet"}

Sessions == {"s1", "s2"}

\* the clock advances by one step of the refresh-rate slider
Tick == RefreshStep

Rates ==
  {r \in RefreshMin..RefreshMax : (r - RefreshMin) % RefreshStep = 0 /\ r <= MaxRate}
  \cup {RefreshDefault}

Never == [has |-> FALSE, at |-> 0]

At(t) == [has |-> TRUE, at |-> t]

NoStamp == [has |-> FALSE, cycle |-> 0, net |-> "", at |-> 0, empty |-> TRUE]

NewSession ==
  [started |-> FALSE, data_timestamp |-> Never, refresh_rate |-> RefreshDefault,
   auto_refresh |-> FALSE, network |-> "Mainnet Beta",
   snap |-> [f \in FieldSet |-> NoStamp]]

NoCall == [fn |-> "none"]

NoRun ==
  [sid |-> "", net |-> "", outcome |-> "none", time |-> 0, hadTs |-> FALSE, due |-> FALSE,
   priorAllFailed |-> FALSE, reissued |-> FALSE]

AppInit ==
  /\ now = 0
  /\ clients = [n \in Networks |-> "unset"]
  /\ memo = [n \in Networks |-> Never]
  /\ issued = [n \in Networks |-> Never]
  /\ sess = [s \in Sessions |-> NewSession]
  /\ ncycles = 0
  /\ nruns = 0
  /\ last = NoRun

\* lines 19-22
init_session_state(st) ==
  IF st.started THEN st
  ELSE [st EXCEPT !.started = TRUE, !.data_timestamp = Never,
                  !.refresh_rate = RefreshDefault, !.auto_refresh = FALSE]

\* lines 82-84
should_fetch(st, current_time) ==
  \/ ~st.data_timestamp.has
  \/ (st.auto_refresh /\ current_time - st.data_timestamp.at > st.refresh_rate)

\* every key of the snapshot holds an empty result
AllEmpty(st) == \A f \in FieldSet : st.snap[f].has /\ st.snap[f].empty

RunInfo(s, net, st, outcome, reissued) ==
  [sid |-> s, net |-> net, outcome |-> outcome, time |-> now,
   hadTs |-> st.data_timestamp.has,
   due |-> st.auto_refresh /\ st.data_timestamp.has
           /\ now - st.data_timestamp.at > st.refresh_rate,
   priorAllFailed |-> st.data_timestamp.has /\ AllEmpty(st),
   reissued |-> reissued]

\* the widget values of a run (lines 33-60): those of the previous run with at most
\* one of them changed by the user, the defaults in the first run of a session
Choices(s) ==
  LET st == init_session_state(sess[s])
      all == [net : Selectable, rate : Rates, auto : BOOLEAN]
      changed(c) == {w \in {"network", "rate", "auto"} :
           \/ (w = "network" /\ c.net # st.network)
           \/ (w = "rate" /\ c.rate # st.refresh_rate)
           \/ (w = "auto" /\ c.auto # st.auto_refresh)}
  IN IF sess[s].started THEN {c \in all : Cardinality(changed(c)) <= 1}
     ELSE {[net |-> st.network, rate |-> st.refresh_rate, auto |-> st.auto_refresh]}

Widgets(s, c) ==
  [init_session_state(sess[s]) EXCEPT !.network = c.net, !.refresh_rate = c.rate,
                          !.auto_refresh = c.auto]

\* get_solana_client (cached per network) returns a client
Connect(net) ==
  /\ clients[net] # "none"
  /\ clients' = [clients EXCEPT ![net] = "ok"]

\* lines 40-45: get_solana_client returns None, st.stop()
RunStopped(s) ==
  \E c \in Choices(s) :
    LET st == init_session_state(sess[s])
    IN /\ nruns < MaxRuns
       /\ c.rate = st.refresh_rate /\ c.auto = st.auto_refresh
       /\ clients[c.net] # "ok"
       /\ clients' = [clients EXCEPT ![c.net] = "none"]
       /\ sess' = [sess EXCEPT ![s] = [st EXCEPT !.network = c.net]]
       /\ last' = RunInfo(s, c.net, st, "stopped", FALSE)
       /\ nruns' = nruns + 1
       /\ UNCHANGED <<now, memo, issued, ncycles, call>>

\* lines 62-64: "Refresh Now" clears the timestamp and reruns the script
RunRefreshNow(s) ==
  LET c == [net |-> sess[s].network, rate |-> sess[s].refresh_rate,
            auto |-> sess[s].auto_refresh]
      st == Widgets(s, c)
  IN /\ nruns < MaxRuns
     /\ sess[s].started
     /\ Connect(c.net)
     /\ sess' = [sess EXCEPT ![s] = [st EXCEPT !.data_timestamp = Never]]
     /\ last' = RunInfo(s, c.net, st, "rerun", FALSE)
     /\ nruns' = nruns + 1
     /\ UNCHANGED <<now, memo, issued, ncycles, call>>

\* lines 80-88 with the condition false
RunNoFetch(s) ==
  \E c \in Choices(s) :
    LET st == Widgets(s, c)
    IN /\ nruns < MaxRuns
       /\ Connect(c.net)
       /\ ~should_fetch(st, now)
       /\ sess' = [sess EXCEPT ![s] = st]
       /\ last' = RunInfo(s, c.net, st, "nofetch", FALSE)
       /\ nruns' = nruns + 1
       /\ UNCHANGED <<now, memo, issued, ncycles, call>>

\* cache_data is called and the memoized entry serves the call: the body does not run
RunFetchHit(s) ==
  \E c \in Choices(s) :
    LET st == Widgets(s, c)
    IN /\ nruns < MaxRuns
       /\ Connect(c.net)
       /\ should_fetch(st, now)
       /\ memo_hit(memo[c.net], now)
       /\ sess' = [sess EXCEPT ![s] = [st EXCEPT !.data_timestamp = At(now)]]
       /\ last' = RunInfo(s, c.net, st, "hit", FALSE)
       /\ nruns' = nruns + 1
       /\ UNCHANGED <<now, memo, issued, ncycles, call>>

Stamped(st, written, cycle, net) ==
  [st EXCEPT !.snap = [f \in FieldSet |->
             IF f \in DOMAIN written
             THEN [has |-> TRUE, cycle |-> cycle, net |-> net, at |-> now,
                   empty |-> written[f]]
             ELSE st.snap[f]]]

\* cache_data is called and its body runs: the RPC calls are issued, then the
\* session state is assigned key by key until the body returns or raises
RunFetchMiss(s) ==
  \E c \in Choices(s), scn \in Scenarios :
    LET st == Widgets(s, c)
        body == cache_data_body(scn)
        st2 == Stamped(st, body.written, ncycles + 1, c.net)
        again == issued[c.net].has /\ now - issued[c.net].at < CacheTtl
    IN /\ nruns < MaxRuns
       /\ Connect(c.net)
       /\ ncycles < MaxCycles
       /\ should_fetch(st, now)
       /\ ~memo_hit(memo[c.net], now)
       /\ ncycles' = ncycles + 1
       /\ nruns' = nruns + 1
       /\ issued' = [issued EXCEPT ![c.net] = At(now)]
       /\ IF body.raised
          THEN /\ sess' = [sess EXCEPT ![s] = st2]
               /\ memo' = memo
               /\ last' = RunInfo(s, c.net, st, "raised", again)
          ELSE /\ sess' = [sess EXCEPT ![s] = [st2 EXCEPT !.data_timestamp = At(now)]]
               /\ memo' = [memo EXCEPT ![c.net] = At(now)]
               /\ last' = RunInfo(s, c.net, st, "fetched", again)
       /\ UNCHANGED <<now, call>>

Advance ==
  /\ now + Tick <= MaxTime
  /\ now' = now + Tick
  /\ UNCHANGED <<clients, memo, issued, sess, ncycles, nruns, last, call>>

Init == AppInit /\ call = NoCall

Next ==
  \/ \E s \in Sessions : RunStopped(s)
  \/ \E s \in Sessions : RunRefreshNow(s)
  \/ \E s \in Sessions : RunNoFetch(s)
  \/ \E s \in Sessions : RunFetchHit(s)
  \/ \E s \in Sessions : RunFetchMiss(s)
  \/ Advance

Spec == Init /\ [][Next]_vars

-----------------------------------------------------------------------------
(* The adapter and the pure functions, each applied to every input of its pool *)

\* every call is made from the state in which nothing has been called yet
Called(fn, arg, res) == [fn |-> fn, arg |-> arg, res |-> res]

Call_get_validators ==
  \E r \in VoteResponses :
    /\ call = NoCall
    /\ call' = Called("get_validators", r, get_validators(r))
    /\ UNCHANGED appvars

Call_get_solana_client ==
  \E n \in Networks, v \in VersionRuns :
    /\ call = NoCall
    /\ call' = Called("get_solana_client", [network |-> n, versions |-> v],
                  Ok(get_solana_client(n, v)))
    /\ UNCHANGED appvars

Call_get_epoch_info ==
  \E r \in EpochResponses :
    /\ call = NoCall
    /\ call' = Called("get_epoch_info", r, get_epoch_info(r))
    /\ UNCHANGED appvars

Call_get_supply_info ==
  \E r \in SupplyResponses :
    /\ call = NoCall
    /\ call' = Called("get_supply_info", r, get_supply_info(r))
    /\ UNCHANGED appvars

Call_get_recent_performance ==
  \E r \in PerformanceResponses :
    /\ call = NoCall
    /\ call' = Called("get_recent_performance", r, get_recent_performance(r))
    /\ UNCHANGED appvars

Call_get_inflation_info ==
  \E r \in InflationResponses :
    /\ call = NoCall
    /\ call' = Called("get_inflation_info", r, get_inflation_info(r))
    /\ UNCHANGED appvars

Call_process_validators_data ==
  \E v \in SeqsUpTo(ValidatorPool, MaxValidators) :
    /\ call = NoCall
    /\ call' = Called("process_validators_data", v, process_validators_data(v))
    /\ UNCHANGED appvars

Call_get_total_stake ==
  \E v \in SeqsUpTo(ValidatorPool, MaxValidators) :
    /\ call = NoCall
    /\ call' = Called("get_total_stake", v, Ok(get_total_stake(v)))
    /\ UNCHANGED appvars

Call_calculate_network_stats ==
  \E v \in StatsInputs, e \in EpochInfos, s \in SupplyInfos,
     i \in InflationInfos :
    /\ call = NoCall
    /\ call' = Called("calculate_network_stats",
                  [validators |-> v, epoch_info |-> e, supply_info |-> s,
                   inflation_info |-> i],
                  calculate_network_stats(v, e, s, i))
    /\ UNCHANGED appvars

\* the table read from session state is one process_validators_data stored there
Call_get_stake_distribution_data ==
  \E v \in DistributionInputs :
    LET df == get_stake_distribution_data([has |-> TRUE, df |-> process_validators_data(v).value])
    IN /\ call = NoCall
       /\ call' = Called("get_stake_distribution_data", v,
                     Ok([df |-> df, size_distribution |-> size_distribution(df)]))
       /\ UNCHANGED appvars

Call_calculate_gini_coefficient ==
  \E a \in GiniArrays :
    /\ call = NoCall
    /\ call' = Called("calculate_gini_coefficient", a, calculate_gini_coefficient(a))
    /\ UNCHANGED appvars

Call_get_validator_threshold ==
  \E df \in DistributionTables, p \in ThresholdTargets :
    /\ call = NoCall
    /\ call' = Called("get_validator_threshold", [df |-> df, percentage |-> p],
                  Ok(get_validator_threshold(df, p)))
    /\ UNCHANGED appvars

Call_render_concentration_view ==
  \E df \in DistributionTables :
    /\ call = NoCall
    /\ call' = Called("render_concentration_view", df, Ok(render_concentration_view(df)))
    /\ UNCHANGED appvars

\* the statistics and the table the tabs read are those of one fetch cycle
RenderInputs ==
  {[stats |-> calculate_network_stats(v, e, s, i).value,
    validators_df |-> [has |-> TRUE, df |-> process_validators_data(v).value]] :
     v \in {<<>>, <<DictSet(VoteDictA, "delinquent", FALSE)>>},
     e \in EpochInfos,
     s \in {EmptyDict, [total |-> IntV(10, 0), circulating |-> IntV(8, 0)]},
     i \in InflationInfos}

Call_render_overview ==
  \E x \in RenderInputs :
    /\ call = NoCall
    /\ call' = Called("render_overview", x, render_overview(TRUE, x.stats, x.validators_df))
    /\ UNCHANGED appvars

Call_render_epoch_staking_stats ==
  \E x \in RenderInputs :
    /\ call = NoCall
    /\ call' = Called("render_epoch_staking_stats", x, render_epoch_staking_stats(TRUE, x.stats))
    /\ UNCHANGED appvars

Call_get_performance_metrics ==
  \E x \in NetworkSnapshots :
    /\ call = NoCall
    /\ call' = Called("get_performance_metrics", x, Ok(get_performance_metrics(x.performance_df)))
    /\ UNCHANGED appvars

\* the performance part of one fetch cycle followed by the metrics of the performance
\* tab: get_recent_performance, process_performance_data, get_performance_metrics
Call_performance_cycle ==
  \E h \in SampleHistories, shape \in {"object", "dict"} :
    LET samples == get_recent_performance(SamplesResponse(h, shape)).value
        df == process_performance_data(samples)
    IN /\ call = NoCall
       /\ call' = Called("performance_cycle",
                     [history |-> h, shape |-> shape, samples |-> samples, df |-> df],
                     Ok(get_performance_metrics([has |-> TRUE, df |-> df])))
       /\ UNCHANGED appvars

Call_render_network_stats ==
  \E x \in NetworkSnapshots :
    /\ call = NoCall
    /\ call' = Called("render_network_stats", x,
                  render_network_stats(TRUE, x.stats, x.performance_df))
    /\ UNCHANGED appvars

Call_render_validator_performance ==
  \E v \in SeqsUpTo(CommissionPool, MaxValidators), f \in StakeFilters,
     c \in CommissionFilters, d \in BOOLEAN :
    /\ call = NoCall
    /\ call' = Called("render_validator_performance",
                  [validators |-> v, filter_stake |-> f, max_commission |-> c,
                   show_delinquent |-> d,
                   filtered |-> filtered_df(get_validator_performance_data(
                                  [has |-> TRUE, df |-> process_validators_data(v).value]),
                                  f, c, d).rows],
                  render_validator_performance(
                    [has |-> TRUE, df |-> process_validators_data(v).value], f, c, d))
    /\ UNCHANGED appvars

Call_correlation_metric ==
  \E r \in CorrelationValues :
    /\ call = NoCall
    /\ call' = Called("correlation_metric", r, Ok(correlation_metric(r)))
    /\ UNCHANGED appvars

FnInit == AppInit /\ call = NoCall

FnNext ==
  \/ Call_get_solana_client
  \/ Call_get_validators
  \/ Call_get_epoch_info
  \/ Call_get_supply_info
  \/ Call_get_recent_performance
  \/ Call_get_inflation_info
  \/ Call_process_validators_data
  \/ Call_get_total_stake
  \/ Call_calculate_network_stats
  \/ Call_get_stake_distribution_data
  \/ Call_calculate_gini_coefficient
  \/ Call_get_validator_threshold
  \/ Call_render_concentration_view
  \/ Call_render_overview
  \/ Call_render_epoch_staking_stats
  \/ Call_get_performance_metrics
  \/ Call_performance_cycle
  \/ Call_render_network_stats
  \/ Call_render_validator_performance
  \/ Call_correlation_metric

FnSpec == FnInit /\ [][FnNext]_vars

-----------------------------------------------------------------------------
(* Claims about the refresh decision and the fetch cycle, checked under Spec *)

\* the latest run reached the refresh decision of lines 82-84
Decided == last.outcome \in {"nofetch", "hit", "fetched", "raised"}

\* the latest run called cache_data
Invoked == last.outcome \in {"hit", "fetched", "raised"}

\* C1: in every run with a connected client cache_data is called unconditionally when
\* no prior successful fetch exists (no timestamp, or the last fetch cycle returned
\* only empty results), and otherwise exactly when auto-refresh is on and more than
\* the refresh interval has elapsed since the last fetch.
C1_RefreshDecision ==
  Decided =>
    IF ~last.hadTs \/ last.priorAllFailed THEN Invoked ELSE (Invoked <=> last.due)

\* C2: when the refresh decision fired and the timestamp was set to the run's time,
\* session state holds all six entries, fetched for the selected network no more than
\* the memoization TTL before the run.
C2_SnapshotAfterFetch ==
  last.outcome \in {"hit", "fetched"} =>
    \A f \in FieldSet :
      LET stamp == sess[last.sid].snap[f]
      IN /\ stamp.has
         /\ stamp.net = last.net
         /\ last.time - stamp.at <= CacheTtl

\* C3: two calls of cache_data for one network less than 60 s apart issue the RPC
\* calls at most once, and a call served by the memoized entry follows an issue of
\* the calls for that network by less than 60 s.
C3_MemoDedup ==
  /\ last.outcome \in {"fetched", "raised"} => ~last.reissued
  /\ last.outcome = "hit" =>
       issued[last.net].has /\ last.time - issued[last.net].at < CacheTtl

\* C4: between runs the six entries of a session's state come from one fetch cycle.
C4_OneCycleSnapshot ==
  \A s \in Sessions : \A f, g \in FieldSet :
    /\ sess[s].snap[f].has = sess[s].snap[g].has
    /\ sess[s].snap[f].cycle = sess[s].snap[g].cycle

-----------------------------------------------------------------------------
(* Claims about the adapter and the pure functions, checked under FnSpec *)

Adapters ==
  {"get_validators", "get_epoch_info", "get_supply_info", "get_recent_performance",
   "get_inflation_info"}

SequenceAdapters == {"get_validators", "get_recent_performance"}

EmptyResult(fn, v) == IF fn \in SequenceAdapters THEN Len(v) = 0 ELSE DOMAIN v = {}

\* neither of the two accepted envelopes, or the call raised
Unrecognized(r) ==
  \/ r.kind \in {"exception", "other"}
  \/ (r.kind = "dict" /\ "result" \notin DOMAIN r.body)

\* a dictionary envelope without the key the adapter subscripts
MissingKey(fn, r) ==
  /\ r.kind = "dict" /\ "result" \in DOMAIN r.body
  /\ \/ (fn = "get_validators" /\ ~({"current", "delinquent"} \subseteq DOMAIN r.body["result"]))
     \/ (fn = "get_supply_info" /\ "value" \notin DOMAIN r.body["result"])

AttrsOf(fn) ==
  CASE fn = "get_epoch_info" -> {p[1] : p \in EpochAttrs}
    [] fn = "get_supply_info" -> {p[1] : p \in SupplyAttrs}
    [] fn = "get_inflation_info" -> {p[1] : p \in InflationAttrs}
    [] OTHER -> {}

\* a typed response of a mapping adapter that lacks some of the attributes read
MissingAttr(fn, r) ==
  /\ fn \in Adapters \ SequenceAdapters
  /\ r.kind = "object"
  /\ ~(AttrsOf(fn) \subseteq DOMAIN r.value)

ZeroCirculating(supply_info) ==
  "circulating" \in DOMAIN supply_info /\ supply_info["circulating"] = IntV(0, 0)

\* C6: process_validators_data, get_total_stake and calculate_network_stats return
\* normally on validator records with missing or partial fields.
C6_PartialRecordsTolerated ==
  /\ call.fn \in {"process_validators_data", "get_total_stake"} => ~call.res.raised
  /\ (call.fn = "calculate_network_stats" /\ ~ZeroCirculating(call.arg.supply_info))
       => ~call.res.raised

WellFormed(validators) ==
  \A i \in 1..Len(validators) :
    "activatedStake" \in DOMAIN validators[i] => validators[i]["activatedStake"].t = "int"

\* C7: no derived metric raises on a zero denominator: the staking rate with
\* circulating supply 0, the epoch progress with slotsInEpoch 0, the time remaining
\* with avgSlotsPerSecond 0.
C7_NoZeroDivision ==
  /\ (call.fn = "calculate_network_stats" /\ WellFormed(call.arg.validators))
       => ~call.res.raised
  /\ call.fn \in {"render_overview", "render_epoch_staking_stats"} => ~call.res.raised

DependentStats == {"stake_concentration_top10", "staking_rate", "total_active_stake"}

\* C8 (as amended): for an empty validator list calculate_network_stats and
\* calculate_gini_coefficient return without raising, the Gini coefficient is 0, and
\* the statistics hold no stake concentration, total stake or staking rate entry.
C8_EmptyValidators ==
  /\ (call.fn = "calculate_network_stats" /\ Len(call.arg.validators) = 0) =>
       /\ ~call.res.raised
       /\ DOMAIN call.res.value \cap DependentStats = {}
  /\ (call.fn = "calculate_gini_coefficient" /\ Len(call.arg) = 0) =>
       /\ ~call.res.raised
       /\ call.res.value.num = 0

\* C8 witness: the statistics of no validators with a circulating supply of zero
C8_Witness ==
  /\ call.fn = "calculate_network_stats"
  /\ Len(call.arg.validators) = 0
  /\ ZeroCirculating(call.arg.supply_info)
  /\ ~call.res.raised

\* C8 as stated: concentration, Gini and staking rate are each reported with the value 0
C8_Original ==
  /\ (call.fn = "calculate_network_stats" /\ Len(call.arg.validators) = 0) =>
       /\ ~call.res.raised
       /\ "stake_concentration_top10" \in DOMAIN call.res.value
       /\ DecIsZero(call.res.value["stake_concentration_top10"].num)
       /\ "staking_rate" \in DOMAIN call.res.value
       /\ DecIsZero(call.res.value["staking_rate"].num)
  /\ (call.fn = "calculate_gini_coefficient" /\ Len(call.arg) = 0) =>
       /\ ~call.res.raised
       /\ call.res.value.num = 0

\* the rate the data model defines from the most recent (epoch, creditsEnd, creditsStart)
ExpectedVoteRate(row) ==
  IF "epochCredits" \notin DOMAIN row THEN Rat(0, 1)
  ELSE IF row["epochCredits"].t # "list" THEN Rat(0, 1)
  ELSE LET credits == row["epochCredits"].items
       IN IF Len(credits) = 0 THEN Rat(0, 1)
          ELSE LET entry == credits[Len(credits)]
               IN IF Len(entry) < 3 THEN Rat(0, 1)
                  ELSE IF entry[3] > 0 THEN Rat(entry[2] - entry[3], entry[3])
                  ELSE Rat(0, 1)

\* C9: voteSuccessRate = (creditsEnd - creditsStart) / creditsStart from the most
\* recent epoch-credit entry when creditsStart > 0, and 0 when the history is
\* unavailable or creditsStart is 0.
C9_VoteSuccessRate ==
  (call.fn = "process_validators_data" /\ ~call.res.raised
     /\ "voteSuccessRate" \in call.res.value.columns) =>
    \A i \in 1..Len(call.res.value.rows) :
      RatEq(call.res.value.rows[i]["voteSuccessRate"],
            ExpectedVoteRate(call.res.value.rows[i]))

\* the band [lo, hi) a stake belongs to
ExpectedBand(x) ==
  LET i == CHOOSE j \in 1..Len(BinEdges) :
             /\ x.ip >= BinEdges[j]
             /\ (j = Len(BinEdges) \/ x.ip < BinEdges[j + 1])
  IN BucketLabels[i]

RECURSIVE SumCounts(_)
SumCounts(f) ==
  IF DOMAIN f = {} THEN 0
  ELSE LET k == CHOOSE x \in DOMAIN f : TRUE
       IN f[k] + SumCounts([x \in DOMAIN f \ {k} |-> f[x]])

\* C10: every validator is in exactly the band [lo, hi) holding its stake (stake 0 in
\* the first band, stake 1000 in the second) and the per-band validator counts sum to
\* the number of validators.
C10_StakeBands ==
  (/\ call.fn = "get_stake_distribution_data"
   /\ \A i \in 1..Len(call.res.value.df.rows) :
        call.res.value.df.rows[i]["stakeSOL"].t = "dec") =>
    /\ \A i \in 1..Len(call.res.value.df.rows) :
         call.res.value.df.rows[i]["stake_bucket"]
           = ExpectedBand(call.res.value.df.rows[i]["stakeSOL"])
    /\ SumCounts(call.res.value.size_distribution) = Len(call.arg)

-----------------------------------------------------------------------------
(* Claims about the shares of stake, checked under FnSpec *)

\* every stake of the input records is a number (so every stakeSOL is non-negative)
NumericStakes(v) ==
  \A i \in 1..Len(v) : "activatedStake" \in DOMAIN v[i] /\ v[i]["activatedStake"].t = "int"

PctIs100(p) == p.t = "pct" /\ p.num = p.den

\* C11: for every non-empty validator table with non-negative stakes the
\* cumulative_percentage column of get_stake_distribution_data is non-decreasing from
\* row to row and its last value is 100.
C11_CumulativePercentage ==
  (call.fn = "get_stake_distribution_data" /\ Len(call.arg) > 0 /\ NumericStakes(call.arg)) =>
    LET rows == call.res.value.df.rows
    IN /\ Len(rows) = Len(call.arg)
       /\ \A i \in 1..(Len(rows) - 1) :
            PctLe(rows[i]["cumulative_percentage"], rows[i + 1]["cumulative_percentage"])
       /\ PctIs100(rows[Len(rows)]["cumulative_percentage"])

\* the rows of a table whose stake is a number, and the sum of the stakes of a set of rows
NumericRows(rows) == {i \in 1..Len(rows) : rows[i]["stakeSOL"].t = "dec"}

RECURSIVE StakeOfRows(_, _)
StakeOfRows(S, rows) ==
  IF S = {} THEN DecZero
  ELSE LET i == CHOOSE j \in S : TRUE
       IN DecAdd(rows[i]["stakeSOL"], StakeOfRows(S \ {i}, rows))

\* some k validators hold at least p percent of the total stake (the k largest then do)
HoldShare(rows, k, p) ==
  LET total == StakeOfRows(NumericRows(rows), rows)
  IN /\ ~DecIsZero(total)
     /\ \E S \in SUBSET NumericRows(rows) :
          /\ Cardinality(S) = k
          /\ DecLe(DecScale(total, p), DecScale(StakeOfRows(S, rows), 100))

\* the smallest k whose k largest validators hold p percent, else the number of rows
ExpectedThreshold(rows, p) ==
  LET ks == {k \in 1..Len(rows) : HoldShare(rows, k, p)}
  IN IF ks # {} THEN CHOOSE k \in ks : \A j \in ks : k <= j ELSE Len(rows)

C13_ThresholdMonotone ==
  call.fn = "render_concentration_view" =>
    LET t == call.res.value.stake_thresholds
    IN /\ call.res.value.shown
       /\ \A p \in StakeTargets : t[p].t = "count"
       /\ t[33].n <= t[50].n /\ t[50].n <= t[66].n /\ t[66].n <= t[90].n

\* C13 witness: a table whose four thresholds are not all the same
C13_Witness ==
  /\ call.fn = "render_concentration_view"
  /\ call.res.value.stake_thresholds[33].n < call.res.value.stake_thresholds[50].n
  /\ call.res.value.stake_thresholds[66].n < call.res.value.stake_thresholds[90].n

-----------------------------------------------------------------------------
(* Claims about the Gini coefficient, checked under FnSpec *)

Occurrences(a, v) == Cardinality({i \in 1..Len(a) : a[i] = v})

Values(a) == {a[i] : i \in 1..Len(a)}

\* the arrangements of the values of a
Arrangements(a) ==
  {q \in [1..Len(a) -> Values(a)] : \A v \in Values(a) : Occurrences(q, v) = Occurrences(a, v)}

Ascending(a) == CHOOSE q \in Arrangements(a) : \A i \in 1..(Len(a) - 1) : q[i] <= q[i + 1]

\* sum over i = 1..n of (2i - n - 1) * x[i]
GiniNumerator(x) == SumSeq([i \in 1..Len(x) |-> (2 * i - Len(x) - 1) * x[i]])

\* C14: calculate_gini_coefficient returns the sum of (2i - n - 1) * x_i over n times the
\* sum of x_i, for the values sorted ascending, whatever the input order; it returns 0
\* for an empty sequence and for one that sums to zero; for stakes [900, 100] it
\* returns 0.4.
C14_GiniFormula ==
  call.fn = "calculate_gini_coefficient" =>
    /\ ~call.res.raised
    /\ (Len(call.arg) = 0 \/ SumSeq(call.arg) = 0) => call.res.value.num = 0
    /\ (Len(call.arg) > 0 /\ SumSeq(call.arg) > 0) =>
         /\ call.res.value.den = Len(call.arg) * SumSeq(call.arg)
         /\ call.res.value.num = GiniNumerator(Ascending(call.arg))
    /\ \A q \in Arrangements(call.arg) :
         RatEq(calculate_gini_coefficient(q).value, call.res.value)
    /\ call.arg = <<900, 100>> => RatEq(call.res.value, Rat(2, 5))

\* C14 witness: the coefficient of the stakes [900, 100] is 0.4
C14_Witness ==
  /\ call.fn = "calculate_gini_coefficient"
  /\ call.arg = <<900, 100>>
  /\ RatEq(call.res.value, Rat(4, 10))

\* C15: for every non-empty sequence of non-negative stakes the Gini coefficient is in
\* [0, 1]; it is 0 when all stakes are equal and (n - 1) / n when one of n validators
\* holds all the stake.
C15_GiniRange ==
  (call.fn = "calculate_gini_coefficient" /\ Len(call.arg) > 0) =>
    LET g == call.res.value
        n == Len(call.arg)
    IN /\ g.den > 0
       /\ 0 <= g.num /\ g.num <= g.den
       /\ Cardinality(Values(call.arg)) = 1 => g.num = 0
       /\ (SumSeq(call.arg) > 0 /\ Occurrences(call.arg, 0) = n - 1) => RatEq(g, Rat(n - 1, n))

\* C15 witness: one of three validators holds all the stake and the coefficient is 2/3
C15_Witness ==
  /\ call.fn = "calculate_gini_coefficient"
  /\ Len(call.arg) = 3
  /\ Occurrences(call.arg, 0) = 2
  /\ SumSeq(call.arg) > 0
  /\ RatEq(call.res.value, Rat(2, 3))

-----------------------------------------------------------------------------
(* Claims about the stake concentration and the staking rate, checked under FnSpec *)

\* the activated stake of a record in SOL; absent, null or non-numeric counts as 0
StakeOf(r) ==
  LET a == DictGet(r, "activatedStake", IntV(0, 0))
  IN IF a.t = "int" THEN DivLamports(a) ELSE DecZero

\* the activated stake of the validators at the positions S
RECURSIVE ActivatedStake(_, _)
ActivatedStake(S, v) ==
  IF S = {} THEN DecZero
  ELSE LET i == CHOOSE j \in S : TRUE
       IN DecAdd(ActivatedStake(S \ {i}, v), StakeOf(v[i]))

\* no validator outside S has more stake than one in S
Largest(S, v) ==
  \A i \in S, j \in (1..Len(v)) \ S : DecLe(StakeOf(v[j]), StakeOf(v[i]))

\* the stake of the ten largest validators (of all of them when there are fewer)
TopTenStake(v) ==
  LET S == CHOOSE T \in SUBSET (1..Len(v)) :
             Cardinality(T) = Min(TopN, Len(v)) /\ Largest(T, v)
  IN ActivatedStake(S, v)

\* C16: for every non-empty validator list with positive total stake,
\* calculate_network_stats reports stake_concentration_top10 = the stake of the 10
\* largest validators / the total active stake * 100, a value in [0, 100] that is 100
\* when there are at most 10 validators; with a total stake of 0 it reports 0.
C16_StakeConcentration ==
  (call.fn = "calculate_network_stats" /\ Len(call.arg.validators) > 0) =>
    LET v == call.arg.validators
        total == ActivatedStake(1..Len(v), v)
    IN /\ ~call.res.raised
       /\ "stake_concentration_top10" \in DOMAIN call.res.value
       /\ LET c == call.res.value["stake_concentration_top10"]
          IN IF DecIsZero(total) THEN DecIsZero(c.num) /\ ~DecIsZero(c.den)
             ELSE /\ c.den = total
                  /\ c.num = TopTenStake(v)
                  /\ DecLe(DecZero, c.num) /\ DecLe(c.num, c.den)
                  /\ Len(v) <= TopN => c.num = c.den

\* a supply snapshot whose circulating supply is a positive number
PositiveCirculating(s) ==
  /\ "circulating" \in DOMAIN s
  /\ s["circulating"].t = "int"
  /\ ~DecIsZero(DivLamports(s["circulating"]))

\* C17: for every non-empty validator list and every supply snapshot with a positive
\* circulating supply, calculate_network_stats reports staking_rate = total active
\* stake / circulating supply * 100, both in whole tokens, the total active stake being
\* the sum of the activated stake of all validators.
C17_StakingRate ==
  (/\ call.fn = "calculate_network_stats"
   /\ Len(call.arg.validators) > 0
   /\ PositiveCirculating(call.arg.supply_info)) =>
    /\ ~call.res.raised
    /\ "staking_rate" \in DOMAIN call.res.value
    /\ call.res.value["total_active_stake"]
         = ActivatedStake(1..Len(call.arg.validators), call.arg.validators)
    /\ call.res.value["staking_rate"].num = call.res.value["total_active_stake"]
    /\ call.res.value["staking_rate"].den = DivLamports(call.arg.supply_info["circulating"])

-----------------------------------------------------------------------------
(* Claims about the epoch time remaining, checked under FnSpec *)

\* the snapshot holds the epoch info and the performance samples give this mean
HasEpochInfo(x) == {"slotIndex", "slotsInEpoch"} \subseteq DOMAIN x.epoch_info

AvgSlotsPerSecond(x) == get_performance_metrics(x.performance_df)["avg_slots_per_second"]

HasAvgSlots(x) == "avg_slots_per_second" \in DOMAIN get_performance_metrics(x.performance_df)

\* d days, h hours and m minutes are the whole minutes of slots / avg seconds
Decomposes(tr, slots, avg) ==
  LET whole == tr.days * SecondsPerDay + tr.hours * SecondsPerHour + tr.minutes * SecondsPerMinute
  IN /\ tr.hours < 24 /\ tr.minutes < 60
     /\ whole * avg.num <= slots * avg.den
     /\ slots * avg.den < (whole + SecondsPerMinute) * avg.num

\* C18: whenever the snapshot holds epoch info and the performance samples give a mean
\* slots-per-second above 0, the epoch time remaining is produced and is
\* (slotsInEpoch - slotIndex) / avgSlotsPerSecond seconds in days, hours and minutes;
\* when the mean is 0 nothing is divided and no value is shown.
C18_TimeRemaining ==
  (/\ call.fn = "render_network_stats"
   /\ HasEpochInfo(call.arg)
   /\ call.arg.epoch_info["slotsInEpoch"] > 0
   /\ HasAvgSlots(call.arg)
   /\ AvgSlotsPerSecond(call.arg).t = "rat") =>
    LET avg == AvgSlotsPerSecond(call.arg)
        slots == call.arg.epoch_info["slotsInEpoch"] - call.arg.epoch_info["slotIndex"]
    IN /\ ~call.res.raised
       /\ IF avg.num > 0
          THEN /\ call.res.value.epoch.time_remaining.shown
               /\ Decomposes(call.res.value.epoch.time_remaining, slots, avg)
          ELSE ~call.res.value.epoch.time_remaining.shown

-----------------------------------------------------------------------------
(* Claims about the commission analysis, checked under FnSpec *)

\* C19: for every non-empty set of filtered validators the stake-weighted mean
\* commission is computed without error and lies between the least and the greatest
\* commission of the set.
C19_WeightedCommission ==
  (call.fn = "render_validator_performance" /\ Len(call.arg.filtered) > 0) =>
    /\ ~call.res.raised
    /\ call.res.value.shown
    /\ LET avg == call.res.value.commission_weighted_avg
           rows == call.arg.filtered
       IN /\ \E i \in 1..Len(rows) : DecLe(DecScale(avg.den, rows[i].commission), avg.num)
          /\ \E i \in 1..Len(rows) : DecLe(avg.num, DecScale(avg.den, rows[i].commission))

\* r as a number of hundredths lies in [lo, hi)
AbsWithin(r, lo, hi) ==
  /\ lo * lo * r.den <= 10000 * r.num
  /\ 10000 * r.num < hi * hi * r.den

\* C20: for every correlation value r the reported band is 'very weak' if |r| < 0.1,
\* 'weak' if 0.1 <= |r| < 0.3, 'moderate' if 0.3 <= |r| < 0.5, 'strong' if
\* 0.5 <= |r| < 0.7 and 'very strong' otherwise, and the reported direction is
\* positive for r > 0 and negative for r < 0.
C20_CorrelationBands ==
  (call.fn = "correlation_metric" /\ call.arg.t = "corr") =>
    LET r == call.arg
        m == call.res.value
    IN /\ AbsWithin(r, 0, 10) => m.interpretation = "Very weak or no relationship"
       /\ AbsWithin(r, 10, 30) => m.interpretation = "Weak relationship"
       /\ AbsWithin(r, 30, 50) => m.interpretation = "Moderate relationship"
       /\ AbsWithin(r, 50, 70) => m.interpretation = "Strong relationship"
       /\ ~AbsWithin(r, 0, 70) => m.interpretation = "Very strong relationship"
       /\ r.sign > 0 => m.direction = "positive"
       /\ r.sign < 0 => m.direction = "negative"

\* C20 witness: r = -0.3, on the edge of two bands, is a moderate negative relationship
C20_Witness ==
  /\ call.fn = "correlation_metric"
  /\ call.arg = CorrV(-1, 900, 10000)
  /\ call.res.value.interpretation = "Moderate relationship"
  /\ call.res.value.direction = "negative"


(***************************************************************************)
(* C21: performance metrics                                                *)
(***************************************************************************)
Periods(rows) == {rows[i]["samplePeriodSecs"] : i \in 1..Len(rows)}

RECURSIVE Product(_)
Product(S) == IF S = {} THEN 1 ELSE LET x == CHOOSE y \in S : TRUE IN x * Product(S \ {x})

\* the sum over rows lo..hi of column / samplePeriodSecs, times the product L of the periods
RECURSIVE ScaledSum(_, _, _, _, _)
ScaledSum(rows, column, L, lo, hi) ==
  IF lo > hi THEN 0
  ELSE IF lo = hi THEN rows[lo][column] * (L \div rows[lo]["samplePeriodSecs"])
  ELSE LET mid == (lo + hi) \div 2
       IN ScaledSum(rows, column, L, lo, mid) + ScaledSum(rows, column, L, mid + 1, hi)

IsMeanOf(m, rows, column) ==
  LET L == Product(Periods(rows))
  IN /\ m.t = "rat"
     /\ m.num * Len(rows) * L = m.den * ScaledSum(rows, column, L, 1, Len(rows))

IsMaxOf(m, rows, column) ==
  /\ m.t = "rat"
  /\ \A i \in 1..Len(rows) : rows[i][column] * m.den <= m.num * rows[i]["samplePeriodSecs"]
  /\ \E i \in 1..Len(rows) : rows[i][column] * m.den = m.num * rows[i]["samplePeriodSecs"]

ExampleSamples ==
  <<[slot |-> 1, numTransactions |-> 1000, numSlots |-> 10, samplePeriodSecs |-> 10],
    [slot |-> 2, numTransactions |-> 2000, numSlots |-> 10, samplePeriodSecs |-> 10]>>

PartitionOf(response, key) ==
  IF response.kind = "object" THEN DictGet(response.value, key, <<>>)
  ELSE response.body["result"][key]

Homogeneous(part) ==
  \/ \A i \in 1..Len(part) : part[i].isdict
  \/ \A i \in 1..Len(part) : ~part[i].isdict

\* a vote-account response in one of the two envelopes, its partitions lists of records
Successful(response) ==
  \/ /\ response.kind = "object"
     /\ Homogeneous(PartitionOf(response, "current"))
     /\ Homogeneous(PartitionOf(response, "delinquent"))
  \/ /\ response.kind = "dict"
     /\ "result" \in DOMAIN response.body
     /\ {"current", "delinquent"} \subseteq DOMAIN response.body["result"]
     /\ \A k \in {"current", "delinquent"} :
          \A i \in 1..Len(PartitionOf(response, k)) : PartitionOf(response, k)[i].isdict

\* the returned dictionary v is the record x of the response with the given flag
IsRecord(v, x, flag) ==
  /\ v["delinquent"] = flag
  /\ IF x.isdict
     THEN \A k \in DOMAIN x.f : v[k] = x.f[k]
     ELSE /\ "node_pubkey" \in DOMAIN x.f => v["nodePubkey"] = x.f["node_pubkey"]
          /\ "activated_stake" \in DOMAIN x.f => v["activatedStake"] = x.f["activated_stake"]
          /\ "commission" \in DOMAIN x.f => v["commission"] = x.f["commission"]

\* C22: for a successful vote-account response in either envelope get_validators returns
\* the records of the current partition followed by those of the delinquent partition,
\* each exactly once, flagged delinquent = False and delinquent = True respectively
C22_PartitionOrder ==
  (call.fn = "get_validators" /\ Successful(call.arg)) =>
    LET current == PartitionOf(call.arg, "current")
        delinquent == PartitionOf(call.arg, "delinquent")
        out == call.res.value
    IN /\ ~call.res.raised
       /\ Len(out) = Len(current) + Len(delinquent)
       /\ \A i \in 1..Len(current) : IsRecord(out[i], current[i], FALSE)
       /\ \A i \in 1..Len(delinquent) : IsRecord(out[Len(current) + i], delinquent[i], TRUE)

\* both partitions hold records and every one of them is returned
C22_Witness ==
  /\ call.fn = "get_validators"
  /\ Successful(call.arg)
  /\ Len(PartitionOf(call.arg, "current")) > 0
  /\ Len(PartitionOf(call.arg, "delinquent")) > 0
  /\ Len(call.res.value) > 1


(***************************************************************************)
(* C23: the validator table is the input, ordered by stake                 *)
(***************************************************************************)
Bijections(n) == {f \in [1..n -> 1..n] : \A i, j \in 1..n : f[i] = f[j] => i = j}

\* row carries every field of the input record
RowOf(row, record) == \A k \in DOMAIN record : row[k] = record[k]

IsPermutation(rows, records) ==
  /\ Len(rows) = Len(records)
  /\ \E f \in Bijections(Len(records)) : \A i \in 1..Len(records) : RowOf(rows[f[i]], records[i])

\* stakeSOL of the row is its activatedStake / 10^9
StakeInSOL(row) ==
  /\ "stakeSOL" \in DOMAIN row
  /\ row["stakeSOL"].t = "dec"
  /\ row["activatedStake"].t = "int"
  /\ row["stakeSOL"].ip = row["activatedStake"].hi
  /\ row["stakeSOL"].fp = row["activatedStake"].lo

SortedByStake(validators, res) ==
  /\ ~res.raised
  /\ IsPermutation(res.value.rows, validators)
  /\ \A i \in 1..Len(res.value.rows) : StakeInSOL(res.value.rows[i])
  /\ \A i \in 1..(Len(res.value.rows) - 1) :
       DecLe(res.value.rows[i + 1]["stakeSOL"], res.value.rows[i]["stakeSOL"])

\* C23: for every validator record sequence the table of process_validators_data holds
\* exactly the input records, each with stakeSOL = activatedStake / 10^9, in order of
\* non-increasing stakeSOL; an empty input gives an empty table without error
C23_SortedByStake ==
  call.fn = "process_validators_data" => SortedByStake(call.arg, call.res)


(***************************************************************************)
(* C24: the performance table is the input, ordered by slot                *)
(***************************************************************************)
WithoutTimeIndex(row) == [k \in DOMAIN row \ {"time_index"} |-> row[k]]

\* the rows are the samples, each as often as it occurs in the input
SameSamples(rows, samples) ==
  /\ Len(rows) = Len(samples)
  /\ \A i \in 1..Len(samples) :
       Cardinality({j \in 1..Len(rows) : WithoutTimeIndex(rows[j]) = samples[i]})
         = Cardinality({j \in 1..Len(samples) : samples[j] = samples[i]})

C25_OwnEndpoint ==
  (call.fn = "get_solana_client" /\ call.res.value.client # NoneV) =>
    \A other \in Networks \ {call.arg.network} :
      endpoint_of(other) # call.res.value.client.endpoint

(***************************************************************************)
(* C28: the connection loop                                                *)
(***************************************************************************)
Attempts(events) == {i \in 1..Len(events) : events[i][1] = "attempt"}

Sleeps(events) == {i \in 1..Len(events) : events[i][1] = "sleep"}

Failed(version) ==
  ~(version.kind = "object" \/ (version.kind = "dict" /\ "result" \in DOMAIN version.body))

\* C28: get_solana_client makes at most 3 attempts, returns the client at the first
\* attempt whose version response has an accepted shape, waits only between a failed
\* attempt and the next one, and returns None exactly when all 3 attempts failed
C28_ConnectionAttempts ==
  call.fn = "get_solana_client" =>
    LET versions == call.arg.versions
        events == call.res.value.events
        made == Cardinality(Attempts(events))
        firstOk == {k \in 1..3 : ~Failed(versions[k]) /\ \A j \in 1..(k - 1) : Failed(versions[j])}
    IN /\ made \in 1..3
       /\ \A k \in firstOk : made = k /\ call.res.value.client # NoneV
       /\ (call.res.value.client = NoneV) <=> (\A k \in 1..3 : Failed(versions[k]))
       /\ \A i \in Sleeps(events) :
            /\ i > 1 /\ i < Len(events)
            /\ events[i - 1][1] = "attempt" /\ Failed(versions[events[i - 1][2] + 1])
            /\ events[i + 1][1] = "attempt"
       /\ Cardinality(Sleeps(events)) = made - 1

\* two attempts fail, one by an exception and one by its response shape, the third
\* connects
C28_Witness ==
  /\ call.fn = "get_solana_client"
  /\ call.arg.versions[1].kind = "exception"
  /\ call.arg.versions[2].kind = "other"
  /\ call.res.value.client # NoneV
  /\ Cardinality(Attempts(call.res.value.events)) = 3


(***************************************************************************)
(* C27: merging keeps the earlier fields                                   *)
(***************************************************************************)
\* C27: in the mapping calculate_network_stats returns every field taken from EpochInfo
\* keeps the EpochInfo value and every computed statistic its computed value: merging
\* InflationInfo overwrites none of them, the 'epoch' entry in particular
C27_MergeKeepsFields ==
  (call.fn = "calculate_network_stats" /\ ~call.res.raised) =>
    /\ \A k \in DOMAIN call.arg.epoch_info : call.res.value[k] = call.arg.epoch_info[k]
    /\ Len(call.arg.validators) > 0 =>
         call.res.value["total_validators"] = Len(call.arg.validators)


(***************************************************************************)
(* C29: an undefined correlation                                           *)
(***************************************************************************)
\* Pearson's r of stake and commission is undefined: fewer than two rows, or one of
\* the two columns constant
UndefinedCorrelation(rows) ==
  \/ Len(rows) < 2
  \/ \A i, j \in 1..Len(rows) : rows[i].stake = rows[j].stake
  \/ \A i, j \in 1..Len(rows) : rows[i].commission = rows[j].commission

\* C29: when the stake/commission correlation is undefined the commission analysis
\* reports no relationship of any strength: it labels it neither 'strong' nor 'very
\* strong' and gives it no direction
C29_UndefinedCorrelation ==
  (/\ call.fn = "render_validator_performance"
   /\ ~call.res.raised
   /\ call.res.value.shown
   /\ UndefinedCorrelation(call.arg.filtered)) =>
    /\ call.res.value.metric.interpretation
         \notin {"Strong relationship", "Very strong relationship"}
    /\ call.res.value.metric.direction \notin {"positive", "negative"}


(***************************************************************************)
(* C30: the commission ranges                                              *)
(***************************************************************************)
RECURSIVE SumOfRanges(_, _)
SumOfRanges(stats, field) ==
  IF DOMAIN stats = {} THEN 0
  ELSE LET b == CHOOSE x \in DOMAIN stats : TRUE
       IN field[b] + SumOfRanges([x \in DOMAIN stats \ {b} |-> stats[x]], field)

RECURSIVE WholeStake(_)
WholeStake(rows) == IF Len(rows) = 0 THEN 0 ELSE Head(rows).stake.ip + WholeStake(Tail(rows))

\* C30: every filtered validator with a commission in 0..100 is counted in exactly one
\* commission range, validators with commission 0 included: the per-range validator
\* counts sum to the number of filtered validators and the per-range stake to their
\* total stake
C30_CommissionRanges ==
  (/\ call.fn = "render_validator_performance"
   /\ ~call.res.raised
   /\ call.res.value.shown
   /\ \A i \in 1..Len(call.arg.filtered) : call.arg.filtered[i].commission \in 0..100) =>
    LET stats == call.res.value.commission_stats
    IN /\ SumOfRanges(stats, [b \in DOMAIN stats |-> stats[b].validator_count])
            = Len(call.arg.filtered)
       /\ SumOfRanges(stats, [b \in DOMAIN stats |-> stats[b].total_stake.ip])
            = WholeStake(call.arg.filtered)


(***************************************************************************)
(* C26: the snapshot after a change of network, checked under Spec         *)
(***************************************************************************)
\* C26: after a run with a connected client the snapshot in session state, which the
\* tabs render, was fetched for the network selected in that run: a run that follows a
\* change of the network selection fetches for the new network, whatever the
\* auto-refresh setting and the time since the last fetch
C26_SnapshotOfSelectedNetwork ==
  Decided =>
    \A f \in FieldSet :
      sess[last.sid].snap[f].has => sess[last.sid].snap[f].net = last.net

====
